---- MODULE Spec2Model ----
(***************************************************************************)
(* Model of skills/supabase-mcp-sync/scripts/check_pending_migrations.py:  *)
(* the command line tool that compares the migration files of a directory  *)
(* with a JSON report of applied migrations and lists the pending ones.    *)
(*                                                                         *)
(* A Python str is a sequence of one-character strings.  A JSON value is a *)
(* record tagged by t: "dict" (items: a sequence of [k, v] with distinct   *)
(* keys, in insertion order), "list" (kids), "str" (s), "num" (s: the      *)
(* matched literal), "bool", "null".                                       *)
(***************************************************************************)
EXTENDS Integers, Sequences, FiniteSets, TLC

----------------------------------------------------------------------------
(* Characters and character classes.                                       *)

\* The characters of the model in ascending code point order.
AsciiOrder ==
  << "\t", "\n", "\r", " ", "\"", "'", "(", ")", "+", ",", "-", ".", "/",
     "0", "1", "2", "3", "4", "5", "6", "7", "8", "9", ":", ";",
     "A", "B", "C", "D", "E", "F", "G", "H", "I", "J", "K", "L", "M",
     "N", "O", "P", "Q", "R", "S", "T", "U", "V", "W", "X", "Y", "Z",
     "[", "\\", "]", "_",
     "a", "b", "c", "d", "e", "f", "g", "h", "i", "j", "k", "l", "m",
     "n", "o", "p", "q", "r", "s", "t", "u", "v", "w", "x", "y", "z",
     "{", "}" >>

Chars == {AsciiOrder[i] : i \in 1..Len(AsciiOrder)}

Ord(c) == CHOOSE i \in 1..Len(AsciiOrder) : AsciiOrder[i] = c

Digits == {"0", "1", "2", "3", "4", "5", "6", "7", "8", "9"}

Letters ==
  { "A", "B", "C", "D", "E", "F", "G", "H", "I", "J", "K", "L", "M",
    "N", "O", "P", "Q", "R", "S", "T", "U", "V", "W", "X", "Y", "Z",
    "a", "b", "c", "d", "e", "f", "g", "h", "i", "j", "k", "l", "m",
    "n", "o", "p", "q", "r", "s", "t", "u", "v", "w", "x", "y", "z" }

\* str.strip() and the regex class \s, on the characters of the model.
Whitespace == {" ", "\t", "\n", "\r"}

\* The class [A-Za-z0-9_-] of the lookbehind and the lookahead.
WordChars == Letters \cup Digits \cup {"_", "-"}

\* The class of TOKEN_SPLIT_RE: [\s,;:"'{}\[\]\(\)\t\r\n].
TOKEN_SPLIT_RE ==
  Whitespace \cup {",", ";", ":", "\"", "'", "{", "}", "[", "]", "(", ")"}

KEY_CANDIDATES ==
  { <<"n", "a", "m", "e">>,
    <<"m", "i", "g", "r", "a", "t", "i", "o", "n", "_", "n", "a", "m", "e">>,
    <<"v", "e", "r", "s", "i", "o", "n">>,
    <<"i", "d">> }

DotSql == <<".", "s", "q", "l">>

----------------------------------------------------------------------------
(* Strings.                                                                *)

\* The element of a one-element set.  Only({e(x) : x \in {v}}) is e of the
\* local variable x, whose value v is computed once.
Only(S) == CHOOSE r \in S : TRUE

StartsWith(s, p) == Len(s) >= Len(p) /\ SubSeq(s, 1, Len(p)) = p

EndsWith(s, p) ==
  Len(s) >= Len(p) /\ SubSeq(s, Len(s) - Len(p) + 1, Len(s)) = p

\* s occurs in t at position i (1-based).
OccursAt(t, s, i) ==
  /\ i >= 1
  /\ i + Len(s) - 1 <= Len(t)
  /\ SubSeq(t, i, i + Len(s) - 1) = s

\* str.strip(): without the leading and the trailing whitespace.
Strip(s) ==
  Only({IF keep = {} THEN << >>
        ELSE SubSeq(s, CHOOSE i \in keep : \A j \in keep : i <= j,
                       CHOOSE i \in keep : \A j \in keep : i >= j)
        : keep \in {{i \in 1..Len(s) : s[i] \notin Whitespace}}})

\* s.split("/")[-1]: what follows the last "/", all of s when it has none.
LastSegment(s) ==
  Only({IF slashes = {} THEN s
        ELSE SubSeq(s, (CHOOSE i \in slashes : \A j \in slashes : i >= j) + 1,
                       Len(s))
        : slashes \in {{i \in 1..Len(s) : s[i] = "/"}}})

\* A bug normalize_name could have: every trailing ".sql" removed, not one.
RECURSIVE normalize_name_all_suffixes(_)
normalize_name_all_suffixes(value) ==
  LET token == LastSegment(Strip(value))
  IN  IF EndsWith(token, DotSql)
      THEN normalize_name_all_suffixes(SubSeq(token, 1, Len(token) - 4))
      ELSE token

\* A bug normalize_name could have: the suffix is never removed.
normalize_name_keep_suffix(value) == LastSegment(Strip(value))

normalize_name(value) ==
  Only({IF EndsWith(token, DotSql)
        THEN SubSeq(token, 1, Len(token) - 4)
        ELSE token
        : token \in {LastSegment(Strip(value))}})

----------------------------------------------------------------------------
(* json.loads, as the standard decoder works: scan_once dispatches on the  *)
(* next character; objects keep the first position and the last value of a *)
(* repeated key; text after the value is an error.  The escape \uXXXX and  *)
(* the escapes \b and \f name characters outside the model's characters;   *)
(* no input of the model contains them.                                    *)

VNull == [t |-> "null"]
VBool(b) == [t |-> "bool", b |-> b]
VNum(lit) == [t |-> "num", s |-> lit]
VStr(s) == [t |-> "str", s |-> s]
VList(kids) == [t |-> "list", kids |-> kids]
VDict(items) == [t |-> "dict", items |-> items]

Fail == [ok |-> FALSE]
Ok(v, i) == [ok |-> TRUE, v |-> v, i |-> i]

CharAt(s, i) == IF i >= 1 /\ i <= Len(s) THEN s[i] ELSE ""

\* The end of the run of characters of class that starts at index i: the
\* least index from i on that holds no character of class.
RunEnd(s, i, class) ==
  IF CharAt(s, i) \notin class THEN i
  ELSE CHOOSE j \in (i + 1)..(Len(s) + 1) :
         /\ CharAt(s, j) \notin class
         /\ \A m \in i..(j - 1) : s[m] \in class

\* WHITESPACE.match(s, i).end()
SkipWs(s, i) == RunEnd(s, i, {" ", "\t", "\n", "\r"})

DigitRunEnd(s, i) == RunEnd(s, i, Digits)

\* The elements of a finite set of integers in ascending order.
Ascending(P) ==
  Only({[k \in 1..Cardinality(Q) |->
           CHOOSE p \in Q : Cardinality({q \in Q : q < p}) = k - 1]
        : Q \in {P}})

\* NUMBER_RE.match(s, i): the index after the match, 0 when there is none.
\* (-?(?:0|[1-9]\d*))(\.\d+)?([eE][-+]?\d+)?
\* The integer part, from index p on: 0, or a run of digits.
NumberInt(s, p) ==
  IF CharAt(s, p) = "0" THEN p + 1
  ELSE IF CharAt(s, p) \in Digits THEN DigitRunEnd(s, p)
  ELSE 0

\* The index of the first digit of an exponent whose letter is at index p.
ExponentDigits(s, p) ==
  IF CharAt(s, p + 1) \in {"+", "-"} THEN p + 2 ELSE p + 1

\* The optional exponent, from index p on.
NumberExponent(s, p) ==
  IF CharAt(s, p) \in {"e", "E"} /\ CharAt(s, ExponentDigits(s, p)) \in Digits
  THEN DigitRunEnd(s, ExponentDigits(s, p))
  ELSE p

\* The optional fraction and exponent, from the end p of the integer part.
NumberFraction(s, p) ==
  IF p = 0 THEN 0
  ELSE IF CharAt(s, p) = "." /\ CharAt(s, p + 1) \in Digits
  THEN NumberExponent(s, DigitRunEnd(s, p + 1))
  ELSE NumberExponent(s, p)

MatchNumber(s, i) ==
  NumberFraction(s, NumberInt(s, IF CharAt(s, i) = "-" THEN i + 1 ELSE i))

\* BACKSLASH: the character an escape names.
Unescape(c) ==
  CASE c = "n" -> "\n"
    [] c = "r" -> "\r"
    [] c = "t" -> "\t"
    [] OTHER   -> c

\* The character at index p of a string literal that starts at index i is
\* escaped: an odd number of backslashes stands right before it.
Escaped(s, i, p) ==
  (CHOOSE k \in 0..(p - i) :
     /\ \A m \in 1..k : s[p - m] = "\\"
     /\ k = p - i \/ s[p - k - 1] # "\\") % 2 = 1

\* The least element of a set of indexes, 0 when it is empty.
First(P) == IF P = {} THEN 0 ELSE CHOOSE p \in P : \A q \in P : p <= q

\* The characters of the literal between index i and its closing quote at
\* index close, decoded; an escape of a character that cannot be escaped and
\* a control character are errors.
ScanStringBody(s, i, close, kept) ==
  IF \E k \in 1..Len(kept) :
       IF Escaped(s, i, kept[k])
       THEN s[kept[k]] \notin {"\"", "\\", "/", "n", "r", "t"}
       ELSE s[kept[k]] \in {"\t", "\n", "\r"}
  THEN Fail
  ELSE Ok([k \in 1..Len(kept) |->
             IF Escaped(s, i, kept[k]) THEN Unescape(s[kept[k]])
             ELSE s[kept[k]]],
          close + 1)

\* The literal that ends at index close (0: it does not end); the
\* backslashes that start an escape stand for no character.
ScanStringTo(s, i, close) ==
  IF close = 0 THEN Fail
  ELSE Only({ScanStringBody(s, i, close, kept)
             : kept \in {Ascending({p \in i..(close - 1) :
                           ~(s[p] = "\\" /\ ~Escaped(s, i, p))})}})

\* py_scanstring(s, i) in strict mode, i the index after the opening quote:
\* the literal ends at the first quote that is not escaped.
ScanString(s, i) ==
  Only({ScanStringTo(s, i, close)
        : close \in {First({p \in i..Len(s) :
                             s[p] = "\"" /\ ~Escaped(s, i, p)})}})

\* dict(pairs): a repeated key keeps its first position and its last value.
DictPut(items, k, v) ==
  IF \E p \in 1..Len(items) : items[p].k = k
  THEN [p \in 1..Len(items) |->
          IF items[p].k = k THEN [k |-> k, v |-> v] ELSE items[p]]
  ELSE Append(items, [k |-> k, v |-> v])

Literal(w) ==
  CASE w = "null"      -> <<"n", "u", "l", "l">>
    [] w = "true"      -> <<"t", "r", "u", "e">>
    [] w = "false"     -> <<"f", "a", "l", "s", "e">>
    [] w = "NaN"       -> <<"N", "a", "N">>
    [] w = "Infinity"  -> <<"I", "n", "f", "i", "n", "i", "t", "y">>
    [] w = "-Infinity" -> <<"-", "I", "n", "f", "i", "n", "i", "t", "y">>

RECURSIVE ParseValue(_, _)
RECURSIVE ParseArrayItems(_, _, _)
RECURSIVE ParseObjectItems(_, _, _)

\* JSONArray, after an item v that ends before index j.
ArrayAfterItem(s, v, j, acc) ==
  IF CharAt(s, j) = "]" THEN Ok(VList(Append(acc, v)), j + 1)
  ELSE IF CharAt(s, j) = ","
  THEN ParseArrayItems(s, SkipWs(s, j + 1), Append(acc, v))
  ELSE Fail

ArrayItem(s, r, acc) ==
  IF r.ok THEN ArrayAfterItem(s, r.v, SkipWs(s, r.i), acc) ELSE Fail

\* JSONArray: i is the index of the next item.
ParseArrayItems(s, i, acc) ==
  Only({ArrayItem(s, r, acc) : r \in {ParseValue(s, i)}})

\* JSONObject, after the members items: "}" ends the object, "," must be
\* followed by the quote of the next key.
ObjectAfterMember(s, items, e) ==
  IF CharAt(s, e) = "}" THEN Ok(VDict(items), e + 1)
  ELSE IF CharAt(s, e) = "," /\ CharAt(s, SkipWs(s, e + 1)) = "\""
  THEN ParseObjectItems(s, SkipWs(s, e + 1) + 1, items)
  ELSE Fail

ObjectValue(s, k, r, acc) ==
  IF r.ok THEN ObjectAfterMember(s, DictPut(acc, k, r.v), SkipWs(s, r.i))
  ELSE Fail

\* JSONObject, after the key k that ends before index j.
ObjectAfterKey(s, k, j, acc) ==
  IF CharAt(s, j) = ":"
  THEN Only({ObjectValue(s, k, r, acc)
             : r \in {ParseValue(s, SkipWs(s, j + 1))}})
  ELSE Fail

ObjectKey(s, key, acc) ==
  IF key.ok THEN ObjectAfterKey(s, key.v, SkipWs(s, key.i), acc) ELSE Fail

\* JSONObject: i is the index after the opening quote of the next key.
ParseObjectItems(s, i, acc) ==
  Only({ObjectKey(s, key, acc) : key \in {ScanString(s, i)}})

StringValue(r) == IF r.ok THEN Ok(VStr(r.v), r.i) ELSE Fail

\* After "{" and whitespace, at index j.
ObjectOpen(s, j) ==
  IF CharAt(s, j) = "}" THEN Ok(VDict(<< >>), j + 1)
  ELSE IF CharAt(s, j) = "\"" THEN ParseObjectItems(s, j + 1, << >>)
  ELSE Fail

\* After "[" and whitespace, at index j.
ArrayOpen(s, j) ==
  IF CharAt(s, j) = "]" THEN Ok(VList(<< >>), j + 1)
  ELSE ParseArrayItems(s, j, << >>)

\* The end of scan_once: a number that ends before index num (0: there is
\* none), or one of the constants NaN, Infinity, -Infinity.
NumberOrConstant(s, i, num) ==
  IF num # 0 THEN Ok(VNum(SubSeq(s, i, num - 1)), num)
  ELSE IF OccursAt(s, Literal("NaN"), i)
  THEN Ok(VNum(Literal("NaN")), i + 3)
  ELSE IF OccursAt(s, Literal("Infinity"), i)
  THEN Ok(VNum(Literal("Infinity")), i + 8)
  ELSE IF OccursAt(s, Literal("-Infinity"), i)
  THEN Ok(VNum(Literal("-Infinity")), i + 9)
  ELSE Fail

\* scan_once(s, i)
ParseValue(s, i) ==
  IF CharAt(s, i) = "\""
  THEN Only({StringValue(r) : r \in {ScanString(s, i + 1)}})
  ELSE IF CharAt(s, i) = "{" THEN ObjectOpen(s, SkipWs(s, i + 1))
  ELSE IF CharAt(s, i) = "[" THEN ArrayOpen(s, SkipWs(s, i + 1))
  ELSE IF OccursAt(s, Literal("null"), i) THEN Ok(VNull, i + 4)
  ELSE IF OccursAt(s, Literal("true"), i) THEN Ok(VBool(TRUE), i + 4)
  ELSE IF OccursAt(s, Literal("false"), i) THEN Ok(VBool(FALSE), i + 5)
  ELSE NumberOrConstant(s, i, MatchNumber(s, i))

LoadsResult(s, r) ==
  IF r.ok /\ SkipWs(s, r.i) = Len(s) + 1 THEN [ok |-> TRUE, v |-> r.v]
  ELSE Fail

\* json.loads(s): [ok |-> TRUE, v |-> value], or [ok |-> FALSE] when it raises.
json_loads(s) ==
  Only({LoadsResult(s, r) : r \in {ParseValue(s, SkipWs(s, 1))}})

----------------------------------------------------------------------------
(* collect_applied_stems: the helpers of one iteration of its loop.        *)

\* token_candidates(text): the non-empty pieces TOKEN_SPLIT_RE.split leaves,
\* the maximal runs of characters outside the class, in their order.
token_candidates(text) ==
  Only({[k \in 1..Len(starts) |->
           SubSeq(text, starts[k],
                  RunEnd(text, starts[k], Chars \ TOKEN_SPLIT_RE) - 1)]
        : starts \in {Ascending({i \in 1..Len(text) :
                        /\ text[i] \notin TOKEN_SPLIT_RE
                        /\ i = 1 \/ text[i - 1] \in TOKEN_SPLIT_RE})}})

\* The lookbehind (?<![A-Za-z0-9_-]) before index i, the lookahead
\* (?![A-Za-z0-9_-]) at index i.
NotAfterWordChar(text, i) == CharAt(text, i - 1) \notin WordChars
NotBeforeWordChar(text, i) == CharAt(text, i) \notin WordChars

\* A bug the search could have: the stem found anywhere, as a substring.
stem_search_substring(stem, text) ==
  \E i \in 1..Len(text) : OccursAt(text, stem, i)

\* re.search(r"(?<![A-Za-z0-9_-])" + re.escape(stem) +
\*           r"(?:\.sql)?(?![A-Za-z0-9_-])", text)
stem_search(stem, text) ==
  \E i \in 1..Len(text) :
    /\ OccursAt(text, stem, i)
    /\ NotAfterWordChar(text, i)
    /\ \/ /\ OccursAt(text, DotSql, i + Len(stem))
          /\ NotBeforeWordChar(text, i + Len(stem) + 4)
       \/ NotBeforeWordChar(text, i + Len(stem))

\* A bug the token loop could have: the test "in local_stems" left out.
token_hits_unguarded(stripped, local_stems) ==
  Only({{normalize_name(tokens[i]) : i \in 1..Len(tokens)}
        : tokens \in {token_candidates(stripped)}})

\* Lines 93-96: the tokens whose normalized form is a local stem.
token_hits(stripped, local_stems) ==
  Only({{normalize_name(tokens[i]) : i \in 1..Len(tokens)}
        : tokens \in {token_candidates(stripped)}})
  \cap local_stems

\* The orders in which "for stem in local_stems" can iterate a set: the
\* order of a set of str changes from one run of the interpreter to the next.
Orders(S) ==
  {order \in [1..Cardinality(S) -> S] :
     \A i, j \in 1..Cardinality(S) : order[i] = order[j] => i = j}

\* A bug the loop of lines 99-102 could have: it stops at the first stem
\* the pattern finds.
RECURSIVE search_hits_first_only(_, _)
search_hits_first_only(stripped, order) ==
  IF order = << >> THEN {}
  ELSE IF stem_search(Head(order), stripped) THEN {Head(order)}
  ELSE search_hits_first_only(stripped, Tail(order))

\* Lines 99-102: the loop over the local stems, in the order the set is
\* iterated in; the stems the pattern finds in the text.
RECURSIVE search_hits(_, _)
search_hits(stripped, order) ==
  IF order = << >> THEN {}
  ELSE (IF stem_search(Head(order), stripped) THEN {Head(order)} ELSE {})
       \cup search_hits(stripped, Tail(order))

\* A bug lines 69-73 could have: the test "in local_stems" left out.
dict_hits_unguarded(node, local_stems) ==
  { normalize_name(node.items[i].v.s) :
      i \in { j \in 1..Len(node.items) :
                /\ node.items[j].k \in KEY_CANDIDATES
                /\ node.items[j].v.t = "str" } }

\* A bug lines 69-73 could have: a value that only begins a local stem, such
\* as its version prefix, is taken for that stem.
dict_hits_prefix(node, local_stems) ==
  { stem \in local_stems :
      \E j \in 1..Len(node.items) :
        /\ node.items[j].k \in KEY_CANDIDATES
        /\ node.items[j].v.t = "str"
        /\ StartsWith(stem, normalize_name(node.items[j].v.s)) }

\* Lines 69-73: the recognized keys of a mapping whose str value is a stem.
dict_hits(node, local_stems) ==
  { normalize_name(node.items[i].v.s) :
      i \in { j \in 1..Len(node.items) :
                /\ node.items[j].k \in KEY_CANDIDATES
                /\ node.items[j].v.t = "str" } } \cap local_stems

\* A bug line 74 could have: only the values of recognized keys appended.
dict_values_recognized_only(node) ==
  LET kept == SelectSeq(node.items, LAMBDA item : item.k \in KEY_CANDIDATES)
  IN  [i \in 1..Len(kept) |-> kept[i].v]

\* Line 74: every value of the mapping appended, in the order of the keys.
dict_values(node) == [i \in 1..Len(node.items) |-> node.items[i].v]

\* A bug lines 85-90 could have: the text pushed back instead of the value
\* it holds.
embedded_json_pushes_text(stripped) ==
  IF (StartsWith(stripped, <<"{">>) \/ StartsWith(stripped, <<"[">>))
     /\ json_loads(stripped).ok
  THEN [ok |-> TRUE, v |-> VStr(stripped)]
  ELSE Fail

\* A bug lines 85-90 could have: the text is parsed and the value dropped.
embedded_json_dropped(stripped) ==
  IF (StartsWith(stripped, <<"{">>) \/ StartsWith(stripped, <<"[">>))
     /\ json_loads(stripped).ok
  THEN [ok |-> TRUE, v |-> VNull]
  ELSE Fail

\* Lines 85-90: json.loads is tried on a text that starts with "{" or "[".
embedded_json(stripped) ==
  IF StartsWith(stripped, <<"{">>) \/ StartsWith(stripped, <<"[">>)
  THEN json_loads(stripped)
  ELSE Fail

Pop(stack) == SubSeq(stack, 1, Len(stack) - 1)
Top(stack) == stack[Len(stack)]

----------------------------------------------------------------------------
(* iter_local_files, the pending list and write_pending_output.            *)

\* MIGRATION_FILE_RE.match(name) with ^[0-9].*\.sql$ : "." matches no line
\* feed, and "$" matches at the end and before a line feed that ends name.
MIGRATION_FILE_RE(name) ==
  \E e \in {Len(name), Len(name) - 1} :
    /\ e >= 5
    /\ e = Len(name) \/ name[Len(name)] = "\n"
    /\ name[1] \in Digits
    /\ SubSeq(name, e - 3, e) = DotSql
    /\ \A i \in 2..(e - 4) : name[i] # "\n"

\* Python's order of str: the first differing character decides, a proper
\* prefix comes first.
LexLess(a, b) ==
  \E i \in 1..(Len(b)) :
    /\ i <= Len(a) + 1
    /\ SubSeq(a, 1, i - 1) = SubSeq(b, 1, i - 1)
    /\ i = Len(a) + 1 \/ Ord(a[i]) < Ord(b[i])

Reverse(seq) == [i \in 1..Len(seq) |-> seq[Len(seq) + 1 - i]]

\* sorted(names)
RECURSIVE sorted(_)
sorted(names) ==
  IF names = {} THEN << >>
  ELSE LET least == CHOOSE n \in names :
                      \A m \in names \ {n} : LexLess(n, m)
       IN  <<least>> \o sorted(names \ {least})

\* A bug line 45 could have: the listing returned in another order.
listing_descending(entries) ==
  Reverse(sorted({e.name : e \in {x \in entries :
                                    x.is_file /\ MIGRATION_FILE_RE(x.name)}}))

\* Lines 45-49: the names of the regular files that match, sorted.
listing(entries) ==
  sorted({e.name : e \in {x \in entries :
                            x.is_file /\ MIGRATION_FILE_RE(x.name)}})

stems_of(files) == {normalize_name(files[i]) : i \in 1..Len(files)}

\* A bug line 134 could have: the test inverted, the applied files listed.
pending_inverted(files, applied_stems) ==
  SelectSeq(files, LAMBDA name : normalize_name(name) \in applied_stems)

\* Line 134
pending_of(files, applied_stems) ==
  SelectSeq(files, LAMBDA name : normalize_name(name) \notin applied_stems)

RECURSIVE Join(_, _)
Join(sep, seqs) ==
  IF seqs = << >> THEN << >>
  ELSE IF Len(seqs) = 1 THEN seqs[1]
  ELSE seqs[1] \o sep \o Join(sep, Tail(seqs))

\* A bug write_pending_output could have: the line feed added to an empty
\* text as well.
pending_text_always_newline(names) == Join(<<"\n">>, names) \o <<"\n">>

\* write_pending_output: the text written to the file.
pending_text(names) ==
  LET text == Join(<<"\n">>, names)
  IN  IF text # << >> THEN text \o <<"\n">> ELSE text

----------------------------------------------------------------------------
(* The inputs of the model: directory entries and applied-report files.    *)

\* 20240101_init
W_init ==
  <<"2", "0", "2", "4", "0", "1", "0", "1", "_", "i", "n", "i", "t">>

\* 20240102_add_users
W_add_users ==
  <<"2", "0", "2", "4", "0", "1", "0", "2", "_", "a", "d", "d", "_", "u",
    "s", "e", "r", "s">>

\* 2024
W_2024 ==
  <<"2", "0", "2", "4">>

\* 20240101
W_20240101 ==
  <<"2", "0", "2", "4", "0", "1", "0", "1">>

\* README.md
F_readme ==
  <<"R", "E", "A", "D", "M", "E", ".", "m", "d">>

\* 2023_old.sql
F_old_dir ==
  <<"2", "0", "2", "3", "_", "o", "l", "d", ".", "s", "q", "l">>

\* seed.sql
F_seed ==
  <<"s", "e", "e", "d", ".", "s", "q", "l">>

\* Successfully applied 20240101_init and 20240205_other
Msg_applied ==
  <<"S", "u", "c", "c", "e", "s", "s", "f", "u", "l", "l", "y", " ", "a",
    "p", "p", "l", "i", "e", "d", " ", "2", "0", "2", "4", "0", "1", "0",
    "1", "_", "i", "n", "i", "t", " ", "a", "n", "d", " ", "2", "0", "2",
    "4", "0", "2", "0", "5", "_", "o", "t", "h", "e", "r">>


\* "2024.sql" and a line feed: a name that ends in a line feed
F_2024_lf ==
  <<"2", "0", "2", "4", ".", "s", "q", "l", "\n">>

\* "2", a line feed, ".sql": a name that holds a line feed
F_2_lf ==
  <<"2", "\n", ".", "s", "q", "l">>

\* "2024 .sql": the stem of this name ends in a space
F_2024_sp ==
  <<"2", "0", "2", "4", " ", ".", "s", "q", "l">>

F_init == W_init \o DotSql
F_add_users == W_add_users \o DotSql
F_2024 == W_2024 \o DotSql
F_20240101 == W_20240101 \o DotSql

\* The texts an applied-JSON file of the model holds.

\* [{"version": "20240101"}]
T_version_prefix ==
  <<"[", "{", "\"", "v", "e", "r", "s", "i", "o", "n", "\"", ":", " ",
    "\"", "2", "0", "2", "4", "0", "1", "0", "1", "\"", "}", "]">>

\* [{"version": "20240101_init"}]
T_version_stem ==
  <<"[", "{", "\"", "v", "e", "r", "s", "i", "o", "n", "\"", ":", " ",
    "\"", "2", "0", "2", "4", "0", "1", "0", "1", "_", "i", "n", "i", "t",
    "\"", "}", "]">>

\* "Successfully applied 20240101_init and 20240205_other"
T_message ==
  <<"\"", "S", "u", "c", "c", "e", "s", "s", "f", "u", "l", "l", "y", " ",
    "a", "p", "p", "l", "i", "e", "d", " ", "2", "0", "2", "4", "0", "1",
    "0", "1", "_", "i", "n", "i", "t", " ", "a", "n", "d", " ", "2", "0",
    "2", "4", "0", "2", "0", "5", "_", "o", "t", "h", "e", "r", "\"">>

\* ["{\"migrations\": [\"20240101_init.sql\"]}"]
T_embedded ==
  <<"[", "\"", "{", "\\", "\"", "m", "i", "g", "r", "a", "t", "i", "o",
    "n", "s", "\\", "\"", ":", " ", "[", "\\", "\"", "2", "0", "2", "4",
    "0", "1", "0", "1", "_", "i", "n", "i", "t", ".", "s", "q", "l", "\\",
    "\"", "]", "}", "\"", "]">>

\* []
T_empty_list ==
  <<"[", "]">>

\* null
T_null ==
  <<"n", "u", "l", "l">>

\* {"version": 20240101}
T_version_number ==
  <<"{", "\"", "v", "e", "r", "s", "i", "o", "n", "\"", ":", " ", "2", "0",
    "2", "4", "0", "1", "0", "1", "}">>

\* "[20240101]"
T_bracketed ==
  <<"\"", "[", "2", "0", "2", "4", "0", "1", "0", "1", "]", "\"">>

\* "[20240101"
T_bracket_open ==
  <<"\"", "[", "2", "0", "2", "4", "0", "1", "0", "1", "\"">>

\* {"result": [{"name": "supabase/migrations/20240102_add_users.sql"}]}
T_path_name ==
  <<"{", "\"", "r", "e", "s", "u", "l", "t", "\"", ":", " ", "[", "{",
    "\"", "n", "a", "m", "e", "\"", ":", " ", "\"", "s", "u", "p", "a",
    "b", "a", "s", "e", "/", "m", "i", "g", "r", "a", "t", "i", "o", "n",
    "s", "/", "2", "0", "2", "4", "0", "1", "0", "2", "_", "a", "d", "d",
    "_", "u", "s", "e", "r", "s", ".", "s", "q", "l", "\"", "}", "]", "}">>

\* "20240101"
T_longer_only ==
  <<"\"", "2", "0", "2", "4", "0", "1", "0", "1", "\"">>

\* {"other": "2024"}
T_other_key ==
  <<"{", "\"", "o", "t", "h", "e", "r", "\"", ":", " ", "\"", "2", "0",
    "2", "4", "\"", "}">>

\* ["[\"[\\\"2024\\\"]\"]"]
T_nested ==
  <<"[", "\"", "[", "\\", "\"", "[", "\\", "\\", "\\", "\"", "2", "0", "2",
    "4", "\\", "\\", "\\", "\"", "]", "\\", "\"", "]", "\"", "]">>

\* {"id": "20240101_init", "migration_name": "20240102_add_users.sql", "ok": true}
T_all ==
  <<"{", "\"", "i", "d", "\"", ":", " ", "\"", "2", "0", "2", "4", "0",
    "1", "0", "1", "_", "i", "n", "i", "t", "\"", ",", " ", "\"", "m", "i",
    "g", "r", "a", "t", "i", "o", "n", "_", "n", "a", "m", "e", "\"", ":",
    " ", "\"", "2", "0", "2", "4", "0", "1", "0", "2", "_", "a", "d", "d",
    "_", "u", "s", "e", "r", "s", ".", "s", "q", "l", "\"", ",", " ", "\"",
    "o", "k", "\"", ":", " ", "t", "r", "u", "e", "}">>

\* "x20240101_init 2024_a 20240101.sqlx"
T_glued ==
  <<"\"", "x", "2", "0", "2", "4", "0", "1", "0", "1", "_", "i", "n", "i",
    "t", " ", "2", "0", "2", "4", "_", "a", " ", "2", "0", "2", "4", "0",
    "1", "0", "1", ".", "s", "q", "l", "x", "\"">>

\* [{"version":      (the text ends there)
T_truncated ==
  <<"[", "{", "\"", "v", "e", "r", "s", "i", "o", "n", "\"", ":">>

\* an empty file
T_blank ==
  <<>>

\* true
T_true ==
  <<"t", "r", "u", "e">>

\* {}
T_empty_dict ==
  <<"{", "}">>

\* ""
T_empty_str ==
  <<"\"", "\"">>

\* "{x"
T_brace_open ==
  <<"\"", "{", "x", "\"">>

AppliedTexts ==
  { T_version_prefix, T_version_stem, T_message, T_embedded, T_empty_list,
    T_null, T_version_number, T_bracketed, T_bracket_open, T_path_name,
    T_longer_only, T_other_key, T_nested, T_all, T_glued, T_truncated,
    T_blank, T_true, T_empty_dict, T_empty_str, T_brace_open }

\* What a migrations directory may hold: migration files, files that do not
\* match, a subdirectory whose name matches.
CandidateEntries ==
  { [name |-> F_init, is_file |-> TRUE],
    [name |-> F_add_users, is_file |-> TRUE],
    [name |-> F_2024, is_file |-> TRUE],
    [name |-> F_20240101, is_file |-> TRUE],
    [name |-> F_2024_lf, is_file |-> TRUE],
    [name |-> F_2_lf, is_file |-> TRUE],
    [name |-> F_readme, is_file |-> TRUE],
    [name |-> F_seed, is_file |-> TRUE],
    [name |-> F_old_dir, is_file |-> FALSE] }

\* The most entries a directory of the model holds.
MaxEntries == 3

Directories ==
  { [kind |-> "missing", entries |-> {}], [kind |-> "file", entries |-> {}] }
  \cup { [kind |-> "dir", entries |-> E] :
           E \in {X \in SUBSET CandidateEntries : Cardinality(X) <= MaxEntries} }

AppliedFiles ==
  { [kind |-> "missing", text |-> << >>],
    [kind |-> "unreadable", text |-> << >>] }
  \cup { [kind |-> "file", text |-> txt] : txt \in AppliedTexts }

----------------------------------------------------------------------------
(* The state of one run of main().                                         *)

VARIABLES
  migrations_dir,   \* what args.migrations_dir names on disk
  applied_json,     \* what args.applied_json_path names on disk
  pending_out,      \* "none", or how the --pending-out path can be written
  pc,               \* where main() is
  local_files,      \* line 128
  local_stems,      \* line 129
  payload,          \* line 131
  stack,            \* collect_applied_stems: the nodes still to visit
  applied,          \* collect_applied_stems: the stems found so far
  pending,          \* line 134
  stdout,           \* the lines printed
  stderr,           \* the lines printed to sys.stderr
  out_file,         \* the file at the --pending-out path
  exit_code,        \* -1 while main() runs, then its exit status
  exc,              \* the exception that ended the try block of main()
  scanned,          \* the last text scanned as free text, and what it matched
  json_reads,       \* how often the applied-JSON file was read
  nIn,              \* normalize_name: an argument
  nOnce,            \* normalize_name(nIn)
  nTwice,           \* normalize_name(nOnce)
  nPc,              \* how far the two calls of normalize_name are
  first,            \* what an earlier run on the same inputs produced
  test_results,     \* email_test.py: EmailSystemTester.test_results
  tPc,              \* email_test.py: where main() is
  tSite,            \* run_all_tests: the next call of log_test, 1..12
  tPrinted,         \* email_test.py: the lines printed
  tCall,            \* the arguments of the last call of log_test
  tPassedAll,       \* what print_summary returned
  tSuccess,         \* main(): success, what run_all_tests returned
  tExit,            \* the status main() gave sys.exit, -1 before
  logger,           \* logging.py: the level and the handlers of a logger
  last_setup,       \* the last call of setup_logger for that logger
  contexts,         \* the LogContext objects: new_level and old_level
  blocks,           \* the with-blocks entered and not left, innermost last
  last_exit,        \* how the last with-block was left
  console,          \* the lines the console handler wrote to sys.stdout
  log_file,         \* the lines the file handler wrote
  record            \* the last LogRecord, after its handlers ran

inputs == <<migrations_dir, applied_json, pending_out>>
run == <<pc, local_files, local_stems, payload, stack, applied, pending,
         stdout, stderr, out_file, exit_code, exc, scanned, json_reads>>
norm == <<nIn, nOnce, nTwice, nPc>>
tester == <<test_results, tPc, tSite, tPrinted, tCall, tPassedAll, tSuccess,
            tExit>>
logs == <<logger, last_setup, contexts, blocks, last_exit, console, log_file,
          record>>
vars == <<inputs, run, norm, first, tester, logs>>

Raise(type, msg) == [raised |-> type, msg |-> msg]
Return(value) == [raised |-> "none", value |-> value]

\* A bug iter_local_files could have: a path that is no directory reported
\* with the message of a path that does not exist.
iter_local_files_one_message(dir) ==
  IF dir.kind # "dir"
  THEN Raise("RuntimeError", "Migrations directory does not exist")
  ELSE LET files == listing(dir.entries)
       IN  IF files = << >>
           THEN Raise("RuntimeError", "No migration .sql files found")
           ELSE Return(files)

\* iter_local_files(migrations_dir)
iter_local_files(dir) ==
  IF dir.kind = "missing"
  THEN Raise("RuntimeError", "Migrations directory does not exist")
  ELSE IF dir.kind # "dir"
  THEN Raise("RuntimeError", "Path is not a directory")
  ELSE LET files == listing(dir.entries)
       IN  IF files = << >>
           THEN Raise("RuntimeError", "No migration .sql files found")
           ELSE Return(files)

\* A bug load_json could have: the cause raised as it is, not wrapped.
load_json_unwrapped(file) ==
  IF file.kind # "file" THEN Raise("OSError", "Failed to read JSON")
  ELSE LET r == json_loads(file.text)
       IN  IF r.ok THEN Return(r.v)
           ELSE Raise("JSONDecodeError", "Failed to read JSON")

\* load_json(applied_json_path): every exception becomes a RuntimeError.
load_json(file) ==
  IF file.kind # "file" THEN Raise("RuntimeError", "Failed to read JSON")
  ELSE LET r == json_loads(file.text)
       IN  IF r.ok THEN Return(r.v)
           ELSE Raise("RuntimeError", "Failed to read JSON")

\* Lines 151-153 for a RuntimeError; any other exception leaves main()
\* uncaught: the interpreter prints the traceback and exits with status 1.
Abort(e) ==
  /\ exc' = e
  /\ stderr' = Append(stderr,
                 IF e.raised = "RuntimeError"
                 THEN [prefix |-> "ERROR:", msg |-> e.msg]
                 ELSE [prefix |-> "Traceback", msg |-> e.msg])
  /\ exit_code' = 1
  /\ pc' = "done"

NoException == [raised |-> "none", msg |-> ""]
NoOutcome == [ran |-> FALSE]
NoScan == [text |-> << >>, hits |-> {}]
NoFile == [written |-> FALSE, text |-> << >>]

InitRunAt(at) ==
  /\ pc = at
  /\ local_files = << >>
  /\ local_stems = {}
  /\ payload = VNull
  /\ stack = << >>
  /\ applied = {}
  /\ pending = << >>
  /\ stdout = << >>
  /\ stderr = << >>
  /\ out_file = NoFile
  /\ exit_code = -1
  /\ exc = NoException
  /\ scanned = NoScan
  /\ json_reads = 0

NormIdle ==
  /\ nIn = << >>
  /\ nOnce = << >>
  /\ nTwice = << >>
  /\ nPc = "idle"

\* email_test.py is not running: lines 23-28, before main() is called.
NoCall == [name |-> "", success |-> FALSE, details |-> ""]

TesterIdle ==
  /\ test_results = [total |-> 0, passed |-> 0, failed |-> 0, errors |-> << >>]
  /\ tPc = "idle"
  /\ tSite = 1
  /\ tPrinted = << >>
  /\ tCall = NoCall
  /\ tPassedAll = "none"
  /\ tSuccess = "none"
  /\ tExit = -1

\* The levels of the logging package.
NOTSET == 0
DEBUG == 10
INFO == 20
WARNING == 30
ERROR == 40

\* Line 133: old_level = None; a level is never negative.
None == -1

\* The two LogContext objects of the model, lines 130-133: LogContext(logger,
\* DEBUG) and LogContext(logger, ERROR) with old_level None.
ContextIds == {"quiet", "verbose"}

NewContexts ==
  [c \in ContextIds |->
     [new_level |-> IF c = "verbose" THEN DEBUG ELSE ERROR,
      old_level |-> None]]

NoSetup ==
  [called |-> FALSE, by |-> "", log_to_file |-> FALSE, raised |-> FALSE]
NoExit ==
  [left |-> FALSE, context |-> "", by_exception |-> FALSE,
   reraised |-> FALSE, entry_level |-> NOTSET]
NoRecord == [no |-> 0, levelname |-> << >>, created_as |-> << >>]

\* logging.py is imported and nothing of it was called for the logger of
\* the model, which is not the logger "ttml" of line 158: a new logger has
\* the level NOTSET and no handler.
LogsIdle ==
  /\ logger = [level |-> NOTSET, handlers |-> << >>]
  /\ last_setup = NoSetup
  /\ contexts = NewContexts
  /\ blocks = << >>
  /\ last_exit = NoExit
  /\ console = << >>
  /\ log_file = << >>
  /\ record = NoRecord

Init ==
  /\ migrations_dir \in Directories
  /\ applied_json \in AppliedFiles
  /\ pending_out \in {"none", "writable", "unwritable"}
  /\ InitRunAt("start")
  /\ NormIdle
  /\ TesterIdle
  /\ LogsIdle
  /\ first = NoOutcome

\* A bug main() could have: lines 128 and 131 in the other order, so that
\* the applied-JSON file is read, and its error reported, before the
\* migrations directory is looked at.
IterLocalFilesRaises_after_load ==
  /\ pc = "start"
  /\ iter_local_files(migrations_dir).raised # "none"
  /\ json_reads' = json_reads + 1
  /\ Abort(IF load_json(applied_json).raised # "none"
           THEN load_json(applied_json)
           ELSE iter_local_files(migrations_dir))
  /\ UNCHANGED <<local_files, local_stems, payload, stack, applied, pending,
                 stdout, out_file, scanned>>
  /\ UNCHANGED <<tester, logs, inputs, norm, first>>

\* Line 128, when iter_local_files raises.
IterLocalFilesRaises ==
  /\ pc = "start"
  /\ iter_local_files(migrations_dir).raised # "none"
  /\ Abort(iter_local_files(migrations_dir))
  /\ UNCHANGED <<local_files, local_stems, payload, stack, applied, pending,
                 stdout, out_file, scanned, json_reads>>
  /\ UNCHANGED <<tester, logs, inputs, norm, first>>

\* Lines 128-129
IterLocalFiles ==
  /\ pc = "start"
  /\ iter_local_files(migrations_dir).raised = "none"
  /\ local_files' = iter_local_files(migrations_dir).value
  /\ local_stems' = stems_of(local_files')
  /\ pc' = "load"
  /\ UNCHANGED <<payload, stack, applied, pending, stdout, stderr, out_file,
                 exit_code, scanned, json_reads>>
  /\ UNCHANGED <<tester, logs, inputs, norm, first, exc>>

\* Line 131, when load_json raises.
LoadJsonRaises ==
  /\ pc = "load"
  /\ load_json(applied_json).raised # "none"
  /\ json_reads' = json_reads + 1
  /\ Abort(load_json(applied_json))
  /\ UNCHANGED <<local_files, local_stems, payload, stack, applied, pending,
                 stdout, out_file, scanned>>
  /\ UNCHANGED <<tester, logs, inputs, norm, first>>

\* Line 131 and lines 62-63: the payload is loaded and the walk starts.
LoadJson ==
  /\ pc = "load"
  /\ load_json(applied_json).raised = "none"
  /\ json_reads' = json_reads + 1
  /\ payload' = load_json(applied_json).value
  /\ stack' = <<payload'>>
  /\ applied' = {}
  /\ pc' = "collect"
  /\ UNCHANGED <<local_files, local_stems, pending, stdout, stderr, out_file,
                 exit_code, scanned>>
  /\ UNCHANGED <<tester, logs, inputs, norm, first, exc>>

Walking == pc = "collect" /\ stack # << >>

\* Lines 68-75
VisitDict ==
  /\ Walking
  /\ Top(stack).t = "dict"
  /\ applied' = applied \cup dict_hits(Top(stack), local_stems)
  /\ stack' = Pop(stack) \o dict_values(Top(stack))
  /\ UNCHANGED <<pc, local_files, local_stems, payload, pending, stdout,
                 stderr, out_file, exit_code, scanned, json_reads>>
  /\ UNCHANGED <<tester, logs, inputs, norm, first, exc>>

\* A bug lines 77-79 could have: stack.append(node[0]) for
\* stack.extend(node), so that only the first element is walked.
VisitList_first_element ==
  /\ Walking
  /\ Top(stack).t = "list"
  /\ stack' = Pop(stack) \o (IF Top(stack).kids = << >> THEN << >>
                            ELSE <<Head(Top(stack).kids)>>)
  /\ UNCHANGED <<pc, local_files, local_stems, payload, applied, pending,
                 stdout, stderr, out_file, exit_code, scanned, json_reads>>
  /\ UNCHANGED <<tester, logs, inputs, norm, first, exc>>

\* Lines 77-79
VisitList ==
  /\ Walking
  /\ Top(stack).t = "list"
  /\ stack' = Pop(stack) \o Top(stack).kids
  /\ UNCHANGED <<pc, local_files, local_stems, payload, applied, pending,
                 stdout, stderr, out_file, exit_code, scanned, json_reads>>
  /\ UNCHANGED <<tester, logs, inputs, norm, first, exc>>

\* A bug lines 85-90 could have: without the "continue" of line 88 the str
\* is parsed, its value pushed, and the str scanned as free text as well.
VisitEmbeddedJson_also_scanned ==
  /\ Walking
  /\ Top(stack).t = "str"
  /\ \E parsed \in {embedded_json(Strip(Top(stack).s))} :
       /\ parsed.ok
       /\ stack' = Append(Pop(stack), parsed.v)
  /\ \E order \in Orders(local_stems), stripped \in {Strip(Top(stack).s)} :
       \E hits \in {token_hits(stripped, local_stems)
                      \cup search_hits(stripped, order)} :
         /\ applied' = applied \cup hits
         /\ scanned' = [text |-> stripped, hits |-> hits]
  /\ UNCHANGED <<pc, local_files, local_stems, payload, pending, stdout,
                 stderr, out_file, exit_code, json_reads>>
  /\ UNCHANGED <<tester, logs, inputs, norm, first, exc>>

\* Lines 81-88: a str that holds JSON is replaced by the value it holds.
VisitEmbeddedJson ==
  /\ Walking
  /\ Top(stack).t = "str"
  /\ \E parsed \in {embedded_json(Strip(Top(stack).s))} :
       /\ parsed.ok
       /\ stack' = Append(Pop(stack), parsed.v)
  /\ UNCHANGED <<pc, local_files, local_stems, payload, applied, pending,
                 stdout, stderr, out_file, exit_code, scanned, json_reads>>
  /\ UNCHANGED <<tester, logs, inputs, norm, first, exc>>

\* Lines 81-102: any other str is scanned as free text.
VisitText ==
  /\ Walking
  /\ Top(stack).t = "str"
  /\ ~embedded_json(Strip(Top(stack).s)).ok
  /\ \E order \in Orders(local_stems), stripped \in {Strip(Top(stack).s)} :
       \E hits \in {token_hits(stripped, local_stems)
                      \cup search_hits(stripped, order)} :
         /\ applied' = applied \cup hits
         /\ scanned' = [text |-> stripped, hits |-> hits]
  /\ stack' = Pop(stack)
  /\ UNCHANGED <<pc, local_files, local_stems, payload, pending, stdout,
                 stderr, out_file, exit_code, json_reads>>
  /\ UNCHANGED <<tester, logs, inputs, norm, first, exc>>

\* A bug the walk could have: a number read as the text of its digits.
VisitOther_number_as_text ==
  /\ Walking
  /\ Top(stack).t \in {"num", "bool", "null"}
  /\ applied' = applied \cup (IF Top(stack).t = "num"
                               THEN {Top(stack).s} \cap local_stems
                               ELSE {})
  /\ stack' = Pop(stack)
  /\ UNCHANGED <<pc, local_files, local_stems, payload, pending, stdout,
                 stderr, out_file, exit_code, scanned, json_reads>>
  /\ UNCHANGED <<tester, logs, inputs, norm, first, exc>>

\* A bug the walk could have: a node that is no dict, list or str raises.
VisitOther_raises ==
  /\ Walking
  /\ Top(stack).t \in {"num", "bool", "null"}
  /\ Abort(Raise("TypeError", "unsupported node"))
  /\ UNCHANGED <<local_files, local_stems, payload, stack, applied, pending,
                 stdout, out_file, scanned, json_reads>>
  /\ UNCHANGED <<tester, logs, inputs, norm, first>>

\* Lines 65-66: a number, a boolean or None is popped and nothing else.
VisitOther ==
  /\ Walking
  /\ Top(stack).t \in {"num", "bool", "null"}
  /\ stack' = Pop(stack)
  /\ UNCHANGED <<pc, local_files, local_stems, payload, applied, pending,
                 stdout, stderr, out_file, exit_code, scanned, json_reads>>
  /\ UNCHANGED <<tester, logs, inputs, norm, first, exc>>

\* Lines 136-143
summary(files, applied_stems, names) ==
  << [line |-> "Local migration files:", n |-> Len(files)],
     [line |-> "Detected applied migrations:", n |-> Cardinality(applied_stems)],
     [line |-> "Pending migrations:", n |-> Len(names)] >>
  \o (IF names # << >>
      THEN <<[line |-> "Pending migration filenames:"]>>
           \o [i \in 1..Len(names) |-> [line |-> "name", name |-> names[i]]]
      ELSE << >>)

\* Lines 132-143: the walk is over, the pending list is computed and printed.
Summarize ==
  /\ pc = "collect"
  /\ stack = << >>
  /\ pending' = pending_of(local_files, applied)
  /\ stdout' = stdout \o summary(local_files, applied, pending')
  /\ pc' = "write"
  /\ UNCHANGED <<local_files, local_stems, payload, stack, applied, stderr,
                 out_file, exit_code, scanned, json_reads>>
  /\ UNCHANGED <<tester, logs, inputs, norm, first, exc>>

\* Lines 145 and 150, without --pending-out.
ReturnWithoutWriting ==
  /\ pc = "write"
  /\ pending_out = "none"
  /\ exit_code' = 0
  /\ pc' = "done"
  /\ UNCHANGED <<local_files, local_stems, payload, stack, applied, pending,
                 stdout, stderr, out_file, scanned, json_reads>>
  /\ UNCHANGED <<tester, logs, inputs, norm, first, exc>>

\* Lines 145-150
WritePending ==
  /\ pc = "write"
  /\ pending_out = "writable"
  /\ out_file' = [written |-> TRUE, text |-> pending_text(pending)]
  /\ stdout' = Append(stdout, [line |-> "Wrote pending list to:"])
  /\ exit_code' = 0
  /\ pc' = "done"
  /\ UNCHANGED <<local_files, local_stems, payload, stack, applied, pending,
                 stderr, scanned, json_reads>>
  /\ UNCHANGED <<tester, logs, inputs, norm, first, exc>>

\* Line 147 when path.write_text raises OSError, which main() does not catch.
WritePendingRaises ==
  /\ pc = "write"
  /\ pending_out = "unwritable"
  /\ Abort(Raise("OSError", "write_text"))
  /\ UNCHANGED <<local_files, local_stems, payload, stack, applied, pending,
                 stdout, out_file, scanned, json_reads>>
  /\ UNCHANGED <<tester, logs, inputs, norm, first>>

Next ==
  \/ IterLocalFilesRaises
  \/ IterLocalFiles
  \/ LoadJsonRaises
  \/ LoadJson
  \/ VisitDict
  \/ VisitList
  \/ VisitEmbeddedJson
  \/ VisitText
  \/ VisitOther
  \/ Summarize
  \/ ReturnWithoutWriting
  \/ WritePending
  \/ WritePendingRaises

Spec == Init /\ [][Next]_vars

----------------------------------------------------------------------------
(* normalize_name as a function: called on a string, then on its result.   *)

NormPieces == {<<"a">>, <<" ">>, <<"/">>, <<".">>, DotSql}

\* The most pieces an argument of normalize_name is made of.
MaxNormPieces == 4

NormInputs ==
  { Join(<< >>, ps) :
      ps \in UNION {[1..n -> NormPieces] : n \in 0..MaxNormPieces} }

InputsIdle ==
  /\ migrations_dir = [kind |-> "missing", entries |-> {}]
  /\ applied_json = [kind |-> "missing", text |-> << >>]
  /\ pending_out = "none"

InitNorm ==
  /\ InputsIdle
  /\ InitRunAt("idle")
  /\ nIn \in NormInputs
  /\ nOnce = << >>
  /\ nTwice = << >>
  /\ nPc = "call"
  /\ TesterIdle
  /\ LogsIdle
  /\ first = NoOutcome

NormalizeOnce ==
  /\ nPc = "call"
  /\ nOnce' = normalize_name(nIn)
  /\ nPc' = "once"
  /\ UNCHANGED <<nIn, nTwice, inputs, run, first, tester, logs>>

NormalizeTwice ==
  /\ nPc = "once"
  /\ nTwice' = normalize_name(nOnce)
  /\ nPc' = "twice"
  /\ UNCHANGED <<nIn, nOnce, inputs, run, first, tester, logs>>

NextNorm == NormalizeOnce \/ NormalizeTwice

SpecNorm == InitNorm /\ [][NextNorm]_vars

----------------------------------------------------------------------------
(* collect_applied_stems as a function: called on a payload that is a text *)
(* made of a few pieces, or a payload of the catalogue, with the stems of  *)
(* a directory of the model.                                               *)

ScanPieces ==
  { W_2024, W_20240101, DotSql, <<" ">>, <<"-">>, <<"_">>, <<"x">>, <<"/">>,
    <<"[">>, <<"]">> }

\* The most pieces a scanned text is made of.
MaxScanPieces == 3

ScanTexts ==
  { Join(<< >>, ps) :
      ps \in UNION {[1..n -> ScanPieces] : n \in 0..MaxScanPieces} }

ScanListings ==
  {<<F_2024, F_20240101>>, <<F_2024, F_init>>, <<F_2024_sp, F_2024>>}

\* {"a": [{"b": {"c": "20240101.sql"}}]}
T_deep_other ==
  <<"{", "\"", "a", "\"", ":", " ", "[", "{", "\"", "b", "\"", ":", " ", "{", "\"", "c", "\"", ":", " ", "\"", "2", "0", "2", "4", "0", "1", "0", "1", ".", "s", "q", "l", "\"", "}", "}", "]", "}">>

\* {"other": "2024 "}
T_other_space ==
  <<"{", "\"", "o", "t", "h", "e", "r", "\"", ":", " ", "\"", "2", "0", "2", "4", " ", "\"", "}">>

\* Reports whose strings stand under keys that are not recognized.
CollectTexts == {T_deep_other, T_other_space}

CollectPayloads ==
  {VStr(txt) : txt \in ScanTexts}
  \cup {json_loads(txt).v :
          txt \in {x \in AppliedTexts \cup CollectTexts : json_loads(x).ok}}

InitCollect ==
  /\ InputsIdle
  /\ NormIdle
  /\ TesterIdle
  /\ LogsIdle
  /\ pc = "collect"
  /\ local_files \in ScanListings
  /\ local_stems = stems_of(local_files)
  /\ payload \in CollectPayloads
  /\ stack = <<payload>>
  /\ applied = {}
  /\ pending = << >>
  /\ stdout = << >>
  /\ stderr = << >>
  /\ out_file = NoFile
  /\ exit_code = -1
  /\ exc = NoException
  /\ scanned = NoScan
  /\ json_reads = 0
  /\ first = NoOutcome

NextCollect == VisitDict \/ VisitList \/ VisitEmbeddedJson \/ VisitText \/ VisitOther

SpecCollect == InitCollect /\ [][NextCollect]_vars

\* The loop of line 65 goes on while the stack is not empty: the program is
\* one thread and nothing suspends it.
FairCollect == SpecCollect /\ WF_vars(NextCollect)

----------------------------------------------------------------------------
(* collect_applied_stems called a second time, on a variant of the report  *)
(* of the first call: the report wrapped in a list or in a mapping, a list *)
(* with its elements permuted, or one element of a list or mapping.        *)

\* "2\"].sql": the stem of this name ends as a JSON list of one str does
F_2_quote ==
  <<"2", "\"", "]", ".", "s", "q", "l">>

\* The str ["/2"], which holds a JSON list and whose last path segment is
\* the stem of F_2_quote.
S_holds_list == <<"[", "\"", "/", "2", "\"", "]">>

K_other == <<"o", "t", "h", "e", "r">>

\* ["2024.sql", ["x"]]: a list of two elements, the first a file name.
L_pair == VList(<<VStr(F_2024), VList(<<VStr(<<"x">>)>>)>>)

AgainPieces == {W_2024, DotSql, <<" ">>, <<"/">>, <<"[">>, <<"]">>, <<"x">>}

\* The most pieces a report of the second call is made of.
MaxAgainPieces == 2

AgainListings == ScanListings \cup {<<F_2_quote, F_2024>>}

AgainPayloads ==
  {VStr(Join(<< >>, ps)) :
     ps \in UNION {[1..n -> AgainPieces] : n \in 0..MaxAgainPieces}}
  \cup {VStr(S_holds_list), L_pair}
  \cup {json_loads(txt).v :
          txt \in {x \in AppliedTexts \cup CollectTexts : json_loads(x).ok}}

\* The reports the claim compares with the report v.
Variants(v) ==
  { [how |-> "in a list", payload |-> VList(<<v>>)],
    [how |-> "under another key",
     payload |-> VDict(<<[k |-> K_other, v |-> v]>>)] }
  \cup { [how |-> "under a recognized key",
          payload |-> VDict(<<[k |-> key, v |-> v]>>)] :
          key \in KEY_CANDIDATES }
  \cup (IF v.t = "list"
        THEN { [how |-> "permuted",
                payload |-> VList([i \in 1..Len(v.kids) |-> v.kids[order[i]]])] :
                order \in Orders(1..Len(v.kids)) }
             \cup { [how |-> "element", payload |-> v.kids[i]] :
                      i \in 1..Len(v.kids) }
        ELSE {})
  \cup (IF v.t = "dict"
        THEN { [how |-> "element", payload |-> v.items[i].v] :
                 i \in 1..Len(v.items) }
        ELSE {})

InitAgain ==
  /\ InputsIdle
  /\ NormIdle
  /\ TesterIdle
  /\ LogsIdle
  /\ pc = "collect"
  /\ local_files \in AgainListings
  /\ local_stems = stems_of(local_files)
  /\ payload \in AgainPayloads
  /\ stack = <<payload>>
  /\ applied = {}
  /\ pending = << >>
  /\ stdout = << >>
  /\ stderr = << >>
  /\ out_file = NoFile
  /\ exit_code = -1
  /\ exc = NoException
  /\ scanned = NoScan
  /\ json_reads = 0
  /\ first = NoOutcome

\* Lines 62-63, in a second call: the walk starts again with an empty
\* applied set; what the first call returned is kept for comparison.
CollectAgain ==
  /\ pc = "collect"
  /\ stack = << >>
  /\ first = NoOutcome
  /\ \E variant \in Variants(payload) :
       /\ first' = [ran |-> TRUE, applied |-> applied, payload |-> payload,
                    how |-> variant.how]
       /\ payload' = variant.payload
  /\ stack' = <<payload'>>
  /\ applied' = {}
  /\ scanned' = NoScan
  /\ UNCHANGED <<pc, local_files, local_stems, pending, stdout, stderr,
                 out_file, exit_code, json_reads>>
  /\ UNCHANGED <<tester, logs, inputs, norm, exc>>

NextAgain == NextCollect \/ CollectAgain

SpecAgain == InitAgain /\ [][NextAgain]_vars

----------------------------------------------------------------------------
(* The program run twice on the same directory, report and --pending-out   *)
(* path: the second run finds the file the first one wrote.                *)

\* What a run leaves behind.
Outcome ==
  [ran |-> TRUE, applied |-> applied, pending |-> pending,
   exit_code |-> exit_code, stdout |-> stdout, stderr |-> stderr,
   out_file |-> out_file]

\* The program is started again: main() begins with fresh locals and
\* streams, the files on disk are what they were when the first run ended.
Rerun ==
  /\ pc = "done"
  /\ first = NoOutcome
  /\ first' = Outcome
  /\ pc' = "start"
  /\ local_files' = << >>
  /\ local_stems' = {}
  /\ payload' = VNull
  /\ stack' = << >>
  /\ applied' = {}
  /\ pending' = << >>
  /\ stdout' = << >>
  /\ stderr' = << >>
  /\ exit_code' = -1
  /\ exc' = NoException
  /\ scanned' = NoScan
  /\ json_reads' = 0
  /\ UNCHANGED <<tester, logs, inputs, norm, out_file>>

\* "2024. 20240101."
T_two_dotted ==
  <<"\"", "2", "0", "2", "4", ".", " ", "2", "0", "2", "4", "0", "1", "0", "1", ".", "\"">>

\* The most entries a directory of a program run twice holds.
MaxTwiceEntries == 2

TwiceDirectories ==
  {d \in Directories : Cardinality(d.entries) <= MaxTwiceEntries}

TwiceFiles == AppliedFiles \cup {[kind |-> "file", text |-> T_two_dotted]}

InitTwice ==
  /\ migrations_dir \in TwiceDirectories
  /\ applied_json \in TwiceFiles
  /\ pending_out \in {"none", "writable", "unwritable"}
  /\ InitRunAt("start")
  /\ NormIdle
  /\ TesterIdle
  /\ LogsIdle
  /\ first = NoOutcome

NextTwice == Next \/ Rerun

SpecTwice == InitTwice /\ [][NextTwice]_vars

----------------------------------------------------------------------------
(* The claims.                                                             *)

\* main() has computed and printed the pending list.
Summarized == pc \in {"write", "done"} /\ stdout # << >>

InSeq(x, seq) == \E i \in 1..Len(seq) : seq[i] = x

\* The migrations directory holds exactly these files.
DirectoryOf(names) ==
  /\ migrations_dir.kind = "dir"
  /\ migrations_dir.entries = {[name |-> n, is_file |-> TRUE] : n \in names}

\* C1: once the pending list is computed, a local file is in it if and only
\* if its normalized stem is not in the applied set; every pending file is
\* a local file, and no file is listed twice.
C1_ClassifiedOnce ==
  Summarized =>
    /\ \A i \in 1..Len(local_files) :
         InSeq(local_files[i], pending)
           <=> normalize_name(local_files[i]) \notin applied
    /\ \A j \in 1..Len(pending) : InSeq(pending[j], local_files)
    /\ \A j, k \in 1..Len(pending) : pending[j] = pending[k] => j = k

\* A run that left one local file pending and found another one applied.
C1_Witness ==
  /\ Summarized
  /\ pending # << >>
  /\ \E i \in 1..Len(local_files) : normalize_name(local_files[i]) \in applied

\* C2: at every step of the walk and after it, every stem in the applied
\* set is a local stem.
C2_AppliedAreLocal == applied \subseteq local_stems

\* The walk is over a report that names add_users, which is no local file,
\* and found init applied.
C2_Witness ==
  /\ pc = "collect"
  /\ stack = << >>
  /\ applied_json.text = T_all
  /\ W_add_users \notin local_stems
  /\ applied = {W_init}

ScenarioA(text) ==
  /\ DirectoryOf({F_init, F_add_users})
  /\ applied_json = [kind |-> "file", text |-> text]
  /\ pc = "done"
  /\ exit_code = 0

\* C3 as claimed: with the files 20240101_init.sql and 20240102_add_users.sql
\* and the report [{"version": "20240101"}], the pending list is
\* ["20240102_add_users.sql"], the local count 2 and the applied count 1.
C3_VersionPrefixMarksApplied ==
  ScenarioA(T_version_prefix) =>
    /\ pending = <<F_add_users>>
    /\ stdout[1].n = 2
    /\ stdout[2].n = 1

\* C3 as amended: the version prefix alone matches no local stem, so both
\* files are pending and the applied count is 0; it is the report
\* [{"version": "20240101_init"}], which holds the whole stem, that leaves
\* ["20240102_add_users.sql"] pending with an applied count of 1.
C3_WholeStemMarksApplied ==
  /\ ScenarioA(T_version_prefix) =>
       /\ pending = <<F_init, F_add_users>>
       /\ applied = {}
       /\ stdout[1].n = 2
       /\ stdout[2].n = 0
  /\ ScenarioA(T_version_stem) =>
       /\ pending = <<F_add_users>>
       /\ applied = {W_init}
       /\ stdout[1].n = 2
       /\ stdout[2].n = 1

C3_Witness == ScenarioA(T_version_prefix) /\ Len(pending) = 2

\* C4: the local list is in strictly ascending lexical order, and the
\* pending list is what is left of it when the applied files are removed:
\* two pending files stand in the order they have in the local list.
C4_PendingKeepsOrder ==
  Summarized =>
    /\ \A i, j \in 1..Len(local_files) :
         i < j => LexLess(local_files[i], local_files[j])
    /\ \E at \in [1..Len(pending) -> 1..Len(local_files)] :
         /\ \A j \in 1..Len(pending) : pending[j] = local_files[at[j]]
         /\ \A j, k \in 1..Len(pending) : j < k <=> at[j] < at[k]
         /\ \A i \in 1..Len(local_files) :
              (\E j \in 1..Len(pending) : at[j] = i)
                <=> normalize_name(local_files[i]) \notin applied

\* Two files are pending and a file that sorts before the second of them
\* was removed as applied.
C4_Witness ==
  /\ Summarized
  /\ Len(pending) = 2
  /\ Len(local_files) = 3
  /\ local_files[3] = pending[2]

\* S occurs in text as a whole token: neither preceded nor followed by a
\* letter, a digit, an underscore or a hyphen.
WholeTokenIn(S, text) ==
  \E i \in 1..Len(text) :
    /\ OccursAt(text, S, i)
    /\ i = 1 \/ text[i - 1] \notin WordChars
    /\ i + Len(S) > Len(text) \/ text[i + Len(S)] \notin WordChars

\* C5: a stem is added by the scan of a free text only if the text holds it
\* as a whole token; so a text that is just 20240101 does not mark the
\* local stem 2024.
C5_WholeTokenOnly ==
  /\ \A S \in scanned.hits : WholeTokenIn(S, scanned.text)
  /\ (scanned.text = W_20240101 /\ W_20240101 \in local_stems)
       => scanned.hits = {W_20240101}

\* The text 20240101 was scanned with both 2024 and 20240101 local.
C5_Witness ==
  /\ {W_2024, W_20240101} \subseteq local_stems
  /\ scanned.text = W_20240101
  /\ scanned.hits = {W_20240101}
  /\ stack = << >>

\* C6 as claimed: normalize_name(normalize_name(x)) = normalize_name(x).
C6_Idempotent == nPc = "twice" => nTwice = nOnce

\* C6 as amended: the second call changes nothing exactly when the first
\* result neither ends in ".sql" nor begins or ends with whitespace.
C6_IdempotentOnCleanResults ==
  nPc = "twice" =>
    (nTwice = nOnce
       <=> /\ ~EndsWith(nOnce, DotSql)
           /\ nOnce = << >>
                \/ (nOnce[1] \notin Whitespace
                      /\ nOnce[Len(nOnce)] \notin Whitespace))

\* A path with a suffix was normalized twice, and the second call changed
\* nothing.
C6_Witness ==
  /\ nPc = "twice"
  /\ nIn = <<"a", "/", "a">> \o DotSql
  /\ nOnce = <<"a">>
  /\ nTwice = nOnce

\* w is x without its leading and trailing whitespace.
IsTrimOf(w, x) ==
  /\ \E i \in 0..Len(x) :
       /\ i + Len(w) <= Len(x)
       /\ SubSeq(x, i + 1, i + Len(w)) = w
       /\ \A m \in (1..i) \cup ((i + Len(w) + 1)..Len(x)) : x[m] \in Whitespace
  /\ w = << >> \/ (w[1] \notin Whitespace /\ w[Len(w)] \notin Whitespace)

\* r is what follows the last "/" of w, with one trailing ".sql" removed.
IsStemOf(r, w) ==
  \E seg \in {SubSeq(w, i, Len(w)) : i \in 1..(Len(w) + 1)} :
    /\ \A m \in 1..Len(seg) : seg[m] # "/"
    /\ Len(seg) = Len(w) \/ w[Len(w) - Len(seg)] = "/"
    /\ IF EndsWith(seg, DotSql) THEN seg = r \o DotSql ELSE seg = r

\* C7 as claimed: the result is what follows the last "/" of the argument,
\* with one trailing ".sql" removed and nothing else changed.
C7_StemOfArgument == nPc # "call" => IsStemOf(nOnce, nIn)

\* C7 as amended: the result is what follows the last "/" of the argument
\* without its leading and trailing whitespace, with one trailing ".sql"
\* removed and nothing else changed.
C7_StemOfTrimmedArgument ==
  nPc # "call" => \E w \in {SubSeq(nIn, i, j) : i \in 1..(Len(nIn) + 1),
                                                 j \in 0..Len(nIn)} :
                    IsTrimOf(w, nIn) /\ IsStemOf(nOnce, w)

\* " /a.sql" was normalized to "a".
C7_Witness ==
  /\ nPc = "once"
  /\ nIn = <<" ", "/", "a">> \o DotSql
  /\ nOnce = <<"a">>

\* C8: with the local file 20240101_init.sql and the report "Successfully
\* applied 20240101_init and 20240205_other", the scan of the text finds
\* 20240101_init and nothing else, and the pending list is empty.
C8_FreeTextDetected ==
  (/\ DirectoryOf({F_init})
   /\ applied_json = [kind |-> "file", text |-> T_message]
   /\ Summarized)
    => /\ scanned = [text |-> Msg_applied, hits |-> {W_init}]
       /\ applied = {W_init}
       /\ pending = << >>
       /\ stdout[3].n = 0

C8_Witness ==
  /\ DirectoryOf({F_init})
  /\ applied_json.text = T_message
  /\ pc = "done"
  /\ exit_code = 0
  /\ pending = << >>

\* The str values a walk meets inside documents embedded in str nodes
\* (inside = TRUE), however deep.
RECURSIVE EmbeddedStrings(_, _)
EmbeddedStrings(v, inside) ==
  CASE v.t = "dict" ->
         UNION {EmbeddedStrings(v.items[i].v, inside) : i \in 1..Len(v.items)}
    [] v.t = "list" ->
         UNION {EmbeddedStrings(v.kids[i], inside) : i \in 1..Len(v.kids)}
    [] v.t = "str" ->
         LET text == Strip(v.s)
         IN  IF text # << >> /\ text[1] \in {"{", "["} /\ json_loads(text).ok
             THEN EmbeddedStrings(json_loads(text).v, TRUE)
             ELSE IF inside THEN {v.s} ELSE {}
    [] OTHER -> {}

InputError ==
  \/ migrations_dir.kind # "dir"
  \/ listing(migrations_dir.entries) = << >>
  \/ applied_json.kind # "file"
  \/ ~json_loads(applied_json.text).ok

\* C10: a run that ends after an input error exits with status 1 and has
\* printed one line with the prefix "ERROR:" to the error stream; a run
\* that ends without an input error, and whose --pending-out path, if any,
\* can be written, exits with status 0, also when nothing is pending.
C10_ExitStatus ==
  pc = "done" =>
    /\ InputError => /\ exit_code = 1
                     /\ Len(stderr) = 1
                     /\ stderr[1].prefix = "ERROR:"
    /\ (~InputError /\ pending_out # "unwritable")
         => (exit_code = 0 /\ stderr = << >>)

\* The applied-JSON file is not valid JSON and the run ended with status 1.
C10_Witness ==
  /\ pc = "done"
  /\ migrations_dir.kind = "dir"
  /\ local_files # << >>
  /\ applied_json.text = T_truncated
  /\ exit_code = 1
  /\ stderr = <<[prefix |-> "ERROR:", msg |-> "Failed to read JSON"]>>

\* C11: a run either completes, with the summary printed, the pending file
\* written when --pending-out is given and status 0, or ends with status 1
\* having printed nothing to stdout and written nothing to the --pending-out
\* path; with a missing migrations directory the only output is the error
\* line that names the directory.
C11_NoPartialSuccess ==
  pc = "done" =>
    /\ \/ /\ exit_code = 0
          /\ Len(stdout) >= 3
          /\ pending_out # "none"
               => out_file = [written |-> TRUE, text |-> pending_text(pending)]
       \/ /\ exit_code = 1
          /\ stdout = << >>
          /\ ~out_file.written
    /\ migrations_dir.kind = "missing"
         => /\ stdout = << >>
            /\ stderr = <<[prefix |-> "ERROR:",
                           msg |-> "Migrations directory does not exist"]>>

\* The name of a directory entry begins with a digit and ends in ".sql".
DigitDotSqlName(name) == name[1] \in Digits /\ EndsWith(name, DotSql)

\* C12: the local list a run goes on with is never empty; a run on a
\* directory that holds no entry whose name begins with a digit and ends in
\* ".sql" ends with status 1 and the error "No migration .sql files found",
\* without a pending list.
C12_EmptyListingFails ==
  /\ pc \in {"load", "collect", "write"} => local_files # << >>
  /\ (/\ pc = "done"
      /\ migrations_dir.kind = "dir"
      /\ ~\E e \in migrations_dir.entries : DigitDotSqlName(e.name))
       => /\ exit_code = 1
          /\ stderr = <<[prefix |-> "ERROR:",
                         msg |-> "No migration .sql files found"]>>
          /\ stdout = << >>
          /\ pending = << >>

\* Why iter_local_files fails on a directory, "none" when it does not.
FailureOf(dir) ==
  IF dir.kind = "missing" THEN "does not exist"
  ELSE IF dir.kind # "dir" THEN "not a directory"
  ELSE IF listing(dir.entries) = << >> THEN "no match"
  ELSE "none"

ListingFailed ==
  pc = "done" /\ exc.raised # "none" /\ FailureOf(migrations_dir) # "none"

\* C13 as claimed: the kind of the error iter_local_files raised differs
\* from the kind it raises for each other failure condition, and from the
\* kind of every error load_json raises.
C13_DistinctErrorKinds ==
  ListingFailed =>
    /\ \A d \in Directories :
         FailureOf(d) \notin {"none", FailureOf(migrations_dir)}
           => iter_local_files(d).raised # exc.raised
    /\ \A f \in AppliedFiles : load_json(f).raised # exc.raised

\* C13 as amended: the three failure conditions and the failure of
\* load_json are all raised as RuntimeError; it is the message that tells
\* them apart.
C13_DistinctMessagesOneKind ==
  ListingFailed =>
    /\ exc.raised = "RuntimeError"
    /\ exc.msg =
         CASE FailureOf(migrations_dir) = "does not exist"
                -> "Migrations directory does not exist"
           [] FailureOf(migrations_dir) = "not a directory"
                -> "Path is not a directory"
           [] FailureOf(migrations_dir) = "no match"
                -> "No migration .sql files found"
    /\ \A d \in Directories :
         FailureOf(d) \notin {"none", FailureOf(migrations_dir)}
           => /\ iter_local_files(d).raised = exc.raised
              /\ iter_local_files(d).msg # exc.msg
    /\ \A f \in AppliedFiles :
         load_json(f).raised # "none"
           => /\ load_json(f).raised = exc.raised
              /\ load_json(f).msg # exc.msg

\* The migrations path names a file and the run ended on that error.
C13_Witness ==
  /\ pc = "done"
  /\ migrations_dir.kind = "file"
  /\ exc = Raise("RuntimeError", "Path is not a directory")
  /\ exit_code = 1

\* Every name followed by one line feed.
RECURSIVE Lines(_)
Lines(names) ==
  IF names = << >> THEN << >>
  ELSE Head(names) \o <<"\n">> \o Lines(Tail(names))

\* C14: the file written at the --pending-out path holds the pending names
\* in the order of the pending list, each followed by one line feed; for an
\* empty pending list it is empty.
C14_OneNamePerLine ==
  out_file.written =>
    /\ out_file.text = Lines(pending)
    /\ pending = << >> => Len(out_file.text) = 0

\* A file of three lines was written.
C14_Witness ==
  /\ out_file.written
  /\ Len(pending) = 3
  /\ out_file.text = pending[1] \o <<"\n">> \o pending[2] \o <<"\n">>
                       \o pending[3] \o <<"\n">>

\* S occurs somewhere in text.
OccursIn(S, text) == \E i \in 1..Len(text) : OccursAt(text, S, i)

\* The text of the applied-JSON file holds no local stem.
NoStemInReport == \A S \in local_stems : ~OccursIn(S, applied_json.text)

\* load_json has returned the payload.
PayloadLoaded == json_reads = 1 /\ load_json(applied_json).raised = "none"

\* C15: no exception ends the walk, whatever the payload; and when the
\* report holds no local stem the applied set is empty, every local file is
\* pending, and a run whose output file, if any, can be written exits with
\* status 0; the only exception a run can end on after the payload is
\* loaded is the OSError of an output file that cannot be written.
C15_CollectNeverFails ==
  /\ pc \in {"collect", "write"} => (exc = NoException /\ exit_code = -1)
  /\ (pc = "done" /\ PayloadLoaded) => exc.raised \in {"none", "OSError"}
  /\ (PayloadLoaded /\ NoStemInReport)
       => /\ applied = {}
          /\ Summarized => pending = local_files
          /\ (pc = "done" /\ pending_out # "unwritable") => exit_code = 0

\* The report is null, two files are local and the run ended with both
\* pending and status 0.
C15_Witness ==
  /\ applied_json.text = T_null
  /\ pc = "done"
  /\ Len(local_files) = 2
  /\ pending = local_files
  /\ exit_code = 0

\* The str values stored under keys that are not recognized, at any depth
\* of the mappings and sequences of a value.
RECURSIVE StoredUnderOtherKeys(_)
StoredUnderOtherKeys(v) ==
  CASE v.t = "dict" ->
         UNION { (IF v.items[i].k \notin KEY_CANDIDATES /\ v.items[i].v.t = "str"
                  THEN {v.items[i].v.s} ELSE {})
                 \cup StoredUnderOtherKeys(v.items[i].v) :
                 i \in 1..Len(v.items) }
    [] v.t = "list" ->
         UNION {StoredUnderOtherKeys(v.kids[i]) : i \in 1..Len(v.kids)}
    [] OTHER -> {}

WalkOver == pc = "collect" /\ stack = << >>

\* C16 as claimed: when the walk is over, every local stem that stands, with
\* or without ".sql", as a str under a key that is not recognized is applied.
C16_OtherKeysExplored ==
  WalkOver =>
    \A S \in local_stems :
      ({S, S \o DotSql} \cap StoredUnderOtherKeys(payload) # {})
        => S \in applied

\* C16 as amended: the same for a str equal to the stem followed by ".sql",
\* and for a str equal to a stem that does not end in whitespace; the str is
\* stripped before it is scanned, so with the files "2024 .sql" and
\* "2024.sql" the report {"other": "2024 "} marks 2024 and nothing else.
C16_OtherKeysExploredAfterStrip ==
  WalkOver =>
    /\ (local_files = <<F_2024_sp, F_2024>>
          /\ payload = json_loads(T_other_space).v) => applied = {W_2024}
    /\ \A S \in local_stems :
      /\ (S \o DotSql) \in StoredUnderOtherKeys(payload) => S \in applied
      /\ (S \in StoredUnderOtherKeys(payload) /\ S[Len(S)] \notin Whitespace)
           => S \in applied

\* 20240101.sql stood under the key "c", three mappings deep, and the walk
\* found 20240101 applied.
C16_Witness ==
  /\ WalkOver
  /\ payload = json_loads(T_deep_other).v
  /\ W_20240101 \in applied

\* Every str of a value: the str nodes themselves and, for a str that holds
\* JSON, the str nodes of the document it holds, however deep.
RECURSIVE AllStrings(_)
AllStrings(v) ==
  CASE v.t = "dict" ->
         UNION {AllStrings(v.items[i].v) : i \in 1..Len(v.items)}
    [] v.t = "list" ->
         UNION {AllStrings(v.kids[i]) : i \in 1..Len(v.kids)}
    [] v.t = "str" ->
         {v.s} \cup (IF embedded_json(Strip(v.s)).ok
                     THEN AllStrings(embedded_json(Strip(v.s)).v)
                     ELSE {})
    [] OTHER -> {}

\* C17: every applied stem occurs in a str of the report, so a number, a
\* boolean or null adds nothing; with the local file 20240101.sql neither
\* {"version": 20240101} nor the str "[20240101]", which holds a JSON list
\* of one number, marks 20240101 as applied.
C17_NumbersIgnored ==
  /\ pc \in {"collect", "write", "done"}
       => \A S \in applied : \E s \in AllStrings(payload) : OccursIn(S, s)
  /\ (Summarized /\ DirectoryOf({F_20240101})
        /\ applied_json.text \in {T_version_number, T_bracketed})
       => (applied = {} /\ pending = <<F_20240101>>)

\* The report {"version": 20240101} left 20240101.sql pending.
C17_Witness ==
  /\ DirectoryOf({F_20240101})
  /\ applied_json.text = T_version_number
  /\ pc = "done"
  /\ exit_code = 0
  /\ pending = <<F_20240101>>

\* iter_local_files has returned the local list.
Listed == pc \in {"load", "collect", "write"} \/ (pc = "done" /\ json_reads = 1)

\* C18: the local list holds exactly the names of the regular files of the
\* directory that begin with a digit and end in ".sql", in strictly
\* ascending order; when the listing fails as empty there is no such file.
C18_ListingExact ==
  /\ Listed =>
       /\ {local_files[i] : i \in 1..Len(local_files)}
            = {e.name : e \in {x \in migrations_dir.entries :
                                 x.is_file /\ DigitDotSqlName(x.name)}}
       /\ \A i, j \in 1..Len(local_files) :
            i < j => LexLess(local_files[i], local_files[j])
  /\ (pc = "done" /\ exc = Raise("RuntimeError", "No migration .sql files found"))
       => ~\E e \in migrations_dir.entries :
             e.is_file /\ DigitDotSqlName(e.name)

\* The applied set of a value, by recursion on the value and in no order:
\* what lines 68-102 add for each node the walk can meet.
RECURSIVE AppliedIn(_, _)
AppliedIn(v, stems) ==
  CASE v.t = "dict" ->
         dict_hits(v, stems)
         \cup UNION {AppliedIn(v.items[i].v, stems) : i \in 1..Len(v.items)}
    [] v.t = "list" ->
         UNION {AppliedIn(v.kids[i], stems) : i \in 1..Len(v.kids)}
    [] v.t = "str" ->
         IF embedded_json(Strip(v.s)).ok
         THEN AppliedIn(embedded_json(Strip(v.s)).v, stems)
         ELSE token_hits(Strip(v.s), stems)
              \cup {S \in stems : stem_search(S, Strip(v.s))}
    [] OTHER -> {}

\* C19: a second run on the same directory, report and --pending-out path
\* ends with the applied set, the pending list, the exit status, the output
\* and the file of the first run, whatever the order the stem set is
\* iterated in; and the applied set of a run is the one the report has by
\* recursion on its nodes, in no order.
C19_Deterministic ==
  /\ (pc = "done" /\ first # NoOutcome) => Outcome = first
  /\ Summarized => applied = AppliedIn(payload, local_stems)

\* Both runs found the two stems of "2024. 20240101." and wrote an empty
\* pending file.
C19_Witness ==
  /\ pc = "done"
  /\ first # NoOutcome
  /\ applied_json.text = T_two_dotted
  /\ first.applied = {W_2024, W_20240101}
  /\ first.out_file.written
  /\ exit_code = 0

\* A measure of a value that is larger than the measures of the values its
\* visit pushes, taken together: a str counts its characters and two
\* quotes, and the document it may hold is written in fewer characters.
RECURSIVE Size(_)
RECURSIVE SizeOfAll(_)
Size(v) ==
  CASE v.t = "dict" -> 1 + SizeOfAll(dict_values(v))
    [] v.t = "list" -> 1 + SizeOfAll(v.kids)
    [] v.t = "str"  -> Len(v.s) + 2
    [] OTHER        -> 1

SizeOfAll(values) ==
  IF values = << >> THEN 0
  ELSE Size(Head(values)) + SizeOfAll(Tail(values))

\* C20: every step of the walk replaces the node it pops by values that are
\* smaller taken together, and the stack becomes empty in the end.
C20_WalkTerminates ==
  /\ [][Walking => SizeOfAll(stack') < SizeOfAll(stack)]_vars
  /\ <>(stack = << >>)

\* The walk is over a report that holds a document in a str of a document
\* in a str, and found the stem in the innermost one.
C20_Witness ==
  /\ stack = << >>
  /\ payload = json_loads(T_nested).v
  /\ applied = {W_2024}

----------------------------------------------------------------------------
(* C21: a str that holds JSON is walked, never scanned.                    *)

\* The str on top of the stack holds a JSON document: its stripped text
\* starts with "{" or "[" and json.loads accepts it.
TopHoldsJson ==
  /\ Walking
  /\ Top(stack).t = "str"
  /\ embedded_json(Strip(Top(stack).s)).ok

TopIsPlainText ==
  /\ Walking
  /\ Top(stack).t = "str"
  /\ ~embedded_json(Strip(Top(stack).s)).ok

\* C21: the visit of a str that holds JSON replaces it on the stack by the
\* value it holds and neither scans it nor adds an applied stem; the visit
\* of any other str pops it and scans its stripped text.  So with the local
\* file 20240101.sql the report "[20240101]" marks nothing and is never
\* scanned, while "[20240101" marks 20240101.
C21_ParsedNotScanned ==
  /\ [][TopHoldsJson =>
          /\ stack' = Append(Pop(stack), json_loads(Strip(Top(stack).s)).v)
          /\ applied' = applied
          /\ scanned' = scanned]_vars
  /\ [][TopIsPlainText =>
          /\ stack' = Pop(stack)
          /\ scanned'.text = Strip(Top(stack).s)
          /\ applied' = applied \cup scanned'.hits]_vars
  /\ [](  (Summarized /\ DirectoryOf({F_20240101})
              /\ applied_json.text = T_bracketed)
            => (applied = {} /\ scanned = NoScan /\ pending = <<F_20240101>>))
  /\ [](  (Summarized /\ DirectoryOf({F_20240101})
              /\ applied_json.text = T_bracket_open)
            => (applied = {W_20240101} /\ pending = << >>
                  /\ scanned.hits = {W_20240101}))

\* The run over "[20240101]" is over: the list was walked, no text was
\* scanned and 20240101.sql is pending.
C21_Witness ==
  /\ pc = "done"
  /\ exit_code = 0
  /\ DirectoryOf({F_20240101})
  /\ applied_json.text = T_bracketed
  /\ scanned = NoScan
  /\ pending = <<F_20240101>>

----------------------------------------------------------------------------
(* C22: the three counts of the summary.                                   *)

\* The number printed after the given words of the summary.
Count(words) ==
  (CHOOSE l \in {stdout[i] : i \in 1..Len(stdout)} : l.line = words).n

\* The file names printed one per line after the three counts.
PrintedNames ==
  SelectSeq(stdout, LAMBDA l : l.line = "name")

\* C22: once the summary is printed, the local count is the applied count
\* plus the pending count, the counts are the sizes of the list, the set
\* and the pending list, and the names are printed exactly when the
\* pending count is not zero.
C22_CountsAddUp ==
  Summarized =>
    /\ Count("Local migration files:") = Len(local_files)
    /\ Count("Detected applied migrations:") = Cardinality(applied)
    /\ Count("Pending migrations:") = Len(pending)
    /\ Count("Local migration files:")
         = Count("Detected applied migrations:")
             + Count("Pending migrations:")
    /\ (PrintedNames # << >>) <=> (Count("Pending migrations:") # 0)
    /\ (\E i \in 1..Len(stdout) :
          stdout[i].line = "Pending migration filenames:")
         <=> (Count("Pending migrations:") # 0)

----------------------------------------------------------------------------
(* C23: the order of the input checks.                                     *)

\* Both inputs are invalid.
BothInvalid ==
  /\ FailureOf(migrations_dir) # "none"
  /\ load_json(applied_json).raised # "none"

\* C23: the applied-JSON file is read only after the listing of the
\* migrations directory succeeded, and at most once; a run on an invalid
\* directory ends on the error of the directory without reading the file,
\* also when the file is invalid too; a path that does not exist is
\* reported as such and not as "not a directory", and a path that is no
\* directory is reported as such and never listed.
C23_DirectoryCheckedFirst ==
  /\ json_reads > 0
       => (FailureOf(migrations_dir) = "none" /\ local_files # << >>)
  /\ json_reads <= 1
  /\ (pc = "done" /\ FailureOf(migrations_dir) # "none")
       => /\ json_reads = 0
          /\ exit_code = 1
          /\ local_files = << >>
          /\ stderr = <<[prefix |-> "ERROR:",
                         msg |-> iter_local_files(migrations_dir).msg]>>
          /\ stderr[1].msg # "Failed to read JSON"
          /\ migrations_dir.kind = "missing"
               => stderr[1].msg = "Migrations directory does not exist"
          /\ migrations_dir.kind = "file"
               => stderr[1].msg = "Path is not a directory"
          /\ migrations_dir.kind = "dir"
               => stderr[1].msg = "No migration .sql files found"
  /\ (pc = "done" /\ FailureOf(migrations_dir) = "none"
        /\ load_json(applied_json).raised # "none")
       => /\ json_reads = 1
          /\ stderr = <<[prefix |-> "ERROR:", msg |-> "Failed to read JSON"]>>

\* The run ended on "does not exist" although the applied-JSON file is
\* missing as well, and the file was not read.
C23_Witness ==
  /\ pc = "done"
  /\ BothInvalid
  /\ migrations_dir.kind = "missing"
  /\ applied_json.kind = "missing"
  /\ json_reads = 0
  /\ stderr = <<[prefix |-> "ERROR:",
                 msg |-> "Migrations directory does not exist"]>>

----------------------------------------------------------------------------
(* C24: collect_applied_stems and the containers of the report.            *)

\* A call of collect_applied_stems has returned.
Returned == pc = "collect" /\ stack = << >>

\* The second call has returned.
ReturnedAgain == Returned /\ first # NoOutcome

\* The applied set of a list is the union of the applied sets of its
\* elements, that of a mapping holds the applied sets of its values.
DistributesOverPayload ==
  /\ payload.t = "list"
       => applied = UNION {AppliedIn(payload.kids[i], local_stems) :
                             i \in 1..Len(payload.kids)}
  /\ payload.t = "dict"
       => UNION {AppliedIn(payload.items[i].v, local_stems) :
                   i \in 1..Len(payload.items)} \subseteq applied

\* C24 as claimed: the applied set distributes over the containers of the
\* report, and the call on the report wrapped in a list or in a mapping, or
\* with the elements of its list permuted, returns the applied set, and so
\* the pending list, of the call on the report itself.
C24_WrappingChangesNothing ==
  /\ Returned => (applied = AppliedIn(payload, local_stems)
                    /\ DistributesOverPayload)
  /\ (ReturnedAgain /\ first.how = "element")
       => applied \subseteq first.applied
  /\ (ReturnedAgain /\ first.how # "element")
       => /\ applied = first.applied
          /\ pending_of(local_files, applied)
               = pending_of(local_files, first.applied)

\* What the recognized key of a wrapping mapping adds: the normalized
\* report, when the report is a str and that is a local stem.
KeyHit(v, stems) ==
  IF v.t = "str" THEN {normalize_name(v.s)} \cap stems ELSE {}

\* C24 as amended: the same, but for the report wrapped in a mapping under
\* a recognized key, where the applied set gains the normalized report when
\* that is a local stem; it is a gain only when the report is a str that
\* holds a JSON document, which is walked and not scanned.
C24_WrappingAddsKeyHitOnly ==
  /\ Returned => (applied = AppliedIn(payload, local_stems)
                    /\ DistributesOverPayload)
  /\ (ReturnedAgain /\ first.how = "element")
       => applied \subseteq first.applied
  /\ (ReturnedAgain
        /\ first.how \in {"in a list", "under another key", "permuted"})
       => /\ applied = first.applied
          /\ pending_of(local_files, applied)
               = pending_of(local_files, first.applied)
  /\ (ReturnedAgain /\ first.how = "under a recognized key")
       => /\ applied = first.applied \cup KeyHit(first.payload, local_stems)
          /\ applied # first.applied
               => embedded_json(Strip(first.payload.s)).ok
  /\ (ReturnedAgain /\ first.how = "under a recognized key"
        /\ first.payload = VStr(S_holds_list)
        /\ local_files = <<F_2_quote, F_2024>>)
       => (first.applied = {} /\ applied = {SubSeq(F_2_quote, 1, 3)})

\* The second call, on the elements of a list of two in the other order,
\* has returned the stem the first call found.
C24_Witness ==
  /\ ReturnedAgain
  /\ first.how = "permuted"
  /\ Len(payload.kids) = 2
  /\ payload.kids # first.payload.kids
  /\ first.applied # {}
  /\ applied = first.applied

----------------------------------------------------------------------------
(* email_test.py: EmailSystemTester and main().  A request to the server   *)
(* is an input: make_request returns whether the status was the expected   *)
(* one, and a response that is a mapping or, when the server answered with *)
(* JSON that is no object, is not.                                         *)

\* A bug log_test could have: a failing call recorded in errors also when
\* it has no details.
log_test_records_every_failure(results, name, success, details) ==
  [total  |-> results.total + 1,
   passed |-> results.passed + (IF success THEN 1 ELSE 0),
   failed |-> results.failed + (IF success THEN 0 ELSE 1),
   errors |-> IF ~success
              THEN Append(results.errors, [name |-> name, details |-> details])
              ELSE results.errors]

\* Lines 32-43: test_results after log_test(name, success, details).
log_test(results, name, success, details) ==
  [total  |-> results.total + 1,
   passed |-> results.passed + (IF success THEN 1 ELSE 0),
   failed |-> results.failed + (IF success THEN 0 ELSE 1),
   errors |-> IF ~success /\ details # ""
              THEN Append(results.errors, [name |-> name, details |-> details])
              ELSE results.errors]

\* Lines 35-37 and 40-42: what log_test prints.
log_test_lines(name, success, details) ==
  <<[mark |-> IF success THEN "passed" ELSE "failed", text |-> name]>>
  \o (IF details # "" THEN <<[mark |-> "details", text |-> details]>>
      ELSE << >>)

\* The calls of log_test in the order run_all_tests reaches them (lines
\* 205-209): the name, whether the response is read with response.get for
\* the details, and whether success is passed as make_request returned it.
Sites ==
  << [name |-> "Application Health Check", reads |-> FALSE, fixed |-> FALSE],
     [name |-> "Resend Confirmation API", reads |-> TRUE, fixed |-> FALSE],
     [name |-> "Resend Confirmation - Missing Email", reads |-> TRUE,
      fixed |-> FALSE],
     [name |-> "Resend Confirmation - Invalid Email", reads |-> TRUE,
      fixed |-> TRUE],
     [name |-> "Send Email Endpoint Status", reads |-> TRUE, fixed |-> FALSE],
     [name |-> "Send Email - Signup Type", reads |-> TRUE, fixed |-> FALSE],
     [name |-> "Email Template - signup", reads |-> TRUE, fixed |-> FALSE],
     [name |-> "Email Template - recovery", reads |-> TRUE, fixed |-> FALSE],
     [name |-> "Email Template - email_change", reads |-> TRUE,
      fixed |-> FALSE],
     [name |-> "Email Template - magic_link", reads |-> TRUE, fixed |-> FALSE],
     [name |-> "Signup Process", reads |-> TRUE, fixed |-> FALSE],
     [name |-> "Resend for New User", reads |-> TRUE, fixed |-> FALSE] >>

\* The details of the call at a site: lines 133 and 135 for the first, an
\* f-string that begins with a word for the others.
DetailsAt(site, success) ==
  IF site = 1
  THEN (IF success THEN "App is running" ELSE "App may not be running")
  ELSE "Response: ..."

\* Lines 157-163: "Resend for New User" is run only after a signup that
\* succeeded; after the last call run_all_tests goes on to print_summary.
AfterSite(site, success) ==
  IF site = 12 \/ (site = 11 /\ ~success) THEN "summary" ELSE "run"

\* Lines 248-249 and 199-204: main() builds the tester and run_all_tests
\* prints its heading.
StartTests ==
  /\ tPc = "idle"
  /\ tPc' = "run"
  /\ tPrinted' = Append(tPrinted, [mark |-> "heading", text |-> "started"])
  /\ UNCHANGED <<test_results, tSite, tCall, tPassedAll, tSuccess, tExit>>
  /\ UNCHANGED <<inputs, run, norm, first, logs>>

\* One request and the call of log_test that follows it.
RunSite ==
  /\ tPc = "run"
  /\ \E success \in BOOLEAN :
       \E passed \in {success \/ Sites[tSite].fixed} :
         /\ tCall' = [name |-> Sites[tSite].name, success |-> passed,
                      details |-> DetailsAt(tSite, success)]
         /\ test_results' = log_test(test_results, tCall'.name, passed,
                                     tCall'.details)
         /\ tPrinted' = tPrinted
                          \o log_test_lines(tCall'.name, passed, tCall'.details)
         /\ tPc' = AfterSite(tSite, success)
  /\ tSite' = tSite + 1
  /\ UNCHANGED <<tPassedAll, tSuccess, tExit>>
  /\ UNCHANGED <<inputs, run, norm, first, logs>>

\* Lines 213-215: the response of a request is no mapping, response.get
\* raises AttributeError, and run_all_tests records the unexpected error
\* and runs no further test.
UnexpectedError ==
  /\ tPc = "run"
  /\ Sites[tSite].reads
  /\ test_results' =
       [test_results EXCEPT
          !.errors = Append(@, [name |-> "Unexpected error",
                                details |-> "AttributeError"])]
  /\ tPrinted' = Append(tPrinted,
                        [mark |-> "unexpected", text |-> "AttributeError"])
  /\ tPc' = "summary"
  /\ UNCHANGED <<tSite, tCall, tPassedAll, tSuccess, tExit>>
  /\ UNCHANGED <<inputs, run, norm, first, logs>>

\* Lines 211-212: KeyboardInterrupt during a test.
Interrupted ==
  /\ tPc = "run"
  /\ tPrinted' = Append(tPrinted, [mark |-> "interrupted", text |-> ""])
  /\ tPc' = "summary"
  /\ UNCHANGED <<test_results, tSite, tCall, tPassedAll, tSuccess, tExit>>
  /\ UNCHANGED <<inputs, run, norm, first, logs>>

\* A Python bool, written as repr writes it.
PyBool(b) == IF b THEN "True" ELSE "False"

\* Lines 219-244: what print_summary prints.
summary_lines(results) ==
  << [mark |-> "Total Tests:", n |-> results.total],
     [mark |-> "Passed:", n |-> results.passed],
     [mark |-> "Failed:", n |-> results.failed] >>
  \o (IF results.total > 0
      THEN <<[mark |-> "Success Rate:", parts |-> results.passed,
              of |-> results.total]>>
      ELSE << >>)
  \o (IF results.errors # << >>
      THEN <<[mark |-> "FAILED TESTS:"]>>
           \o [i \in 1..Len(results.errors) |->
                 [mark |-> "error", text |-> results.errors[i].name]]
      ELSE << >>)

\* Line 217 and line 249: print_summary prints and returns failed == 0;
\* run_all_tests does not return that value, it ends without a return
\* statement, so main() binds success to None.
PrintSummary ==
  /\ tPc = "summary"
  /\ tPrinted' = tPrinted \o summary_lines(test_results)
  /\ tPassedAll' = PyBool(test_results.failed = 0)
  /\ tSuccess' = "None"
  /\ tPc' = "exit"
  /\ UNCHANGED <<test_results, tSite, tCall, tExit>>
  /\ UNCHANGED <<inputs, run, norm, first, logs>>

\* bool(success): None is false.
Truthy(value) == value = "True"

\* Line 252: sys.exit(0 if success else 1)
SysExit ==
  /\ tPc = "exit"
  /\ tExit' = (IF Truthy(tSuccess) THEN 0 ELSE 1)
  /\ tPc' = "exited"
  /\ UNCHANGED <<test_results, tSite, tPrinted, tCall, tPassedAll, tSuccess>>
  /\ UNCHANGED <<inputs, run, norm, first, logs>>

\* Nothing of the other programs runs.
OthersIdle ==
  /\ InputsIdle
  /\ InitRunAt("idle")
  /\ NormIdle
  /\ first = NoOutcome

InitEmail == OthersIdle /\ TesterIdle /\ LogsIdle

NextEmail ==
  StartTests \/ RunSite \/ UnexpectedError \/ Interrupted \/ PrintSummary
    \/ SysExit

SpecEmail == InitEmail /\ [][NextEmail]_vars

----------------------------------------------------------------------------
(* log_test called any number of times on a new EmailSystemTester, with    *)
(* and without details.                                                    *)

\* The most calls of log_test.
MaxLogCalls == 4

InitLogTest ==
  /\ OthersIdle
  /\ LogsIdle
  /\ test_results = [total |-> 0, passed |-> 0, failed |-> 0, errors |-> << >>]
  /\ tPc = "calls"
  /\ tSite = 1
  /\ tPrinted = << >>
  /\ tCall = NoCall
  /\ tPassedAll = "none"
  /\ tSuccess = "none"
  /\ tExit = -1

\* Lines 30-43
LogTest ==
  /\ tPc = "calls"
  /\ test_results.total < MaxLogCalls
  /\ \E name \in {"A", "B"}, success \in BOOLEAN, details \in {"", "why"} :
       /\ tCall' = [name |-> name, success |-> success, details |-> details]
       /\ test_results' = log_test(test_results, name, success, details)
       /\ tPrinted' = tPrinted \o log_test_lines(name, success, details)
  /\ UNCHANGED <<tPc, tSite, tPassedAll, tSuccess, tExit>>
  /\ UNCHANGED <<inputs, run, norm, first, logs>>

NextLogTest == LogTest

SpecLogTest == InitLogTest /\ [][NextLogTest]_vars

----------------------------------------------------------------------------
(* C25, C26: email_test.py.                                                *)

\* C25: main() has given sys.exit the status 0 when the run ended with no
\* failed test, which is also what print_summary returned, and the status
\* 1 otherwise.
C25_ExitStatusFollowsFailed ==
  tPc = "exited" =>
    /\ tPassedAll = PyBool(test_results.failed = 0)
    /\ (tExit = 0) <=> (test_results.failed = 0)
    /\ tExit \in {0, 1}

\* C26: total is passed plus failed and the entries of errors are no more
\* than failed; a call of log_test adds one to total and one to passed or
\* to failed as success says, and appends its entry to errors exactly when
\* it fails and has details.
C26_CountsOfLogTest ==
  /\ [](/\ test_results.total = test_results.passed + test_results.failed
        /\ Len(test_results.errors) <= test_results.failed)
  /\ [][/\ test_results'.total = test_results.total + 1
        /\ IF tCall'.success
           THEN /\ test_results'.passed = test_results.passed + 1
                /\ test_results'.failed = test_results.failed
           ELSE /\ test_results'.passed = test_results.passed
                /\ test_results'.failed = test_results.failed + 1
        /\ IF ~tCall'.success /\ tCall'.details # ""
           THEN test_results'.errors
                  = Append(test_results.errors,
                           [name |-> tCall'.name, details |-> tCall'.details])
           ELSE test_results'.errors = test_results.errors]_vars

\* Four calls: one passed, three failed, and one of the failed ones had no
\* details, so errors has two entries.
C26_Witness ==
  /\ test_results.total = 4
  /\ test_results.passed = 1
  /\ test_results.failed = 3
  /\ Len(test_results.errors) = 2
  /\ tCall = [name |-> "B", success |-> FALSE, details |-> ""]

----------------------------------------------------------------------------
(* util/logging.py: one logger, configured by setup_logger and get_logger, *)
(* its level changed by LogContext, and records logged through it.  A      *)
(* level name, and a line, is a sequence of pieces of text; an ANSI escape *)
(* code is one piece.                                                      *)

\* Lines 18-25: COLORS, the escape codes by level name.
COLORS ==
  [n \in {"DEBUG", "INFO", "WARNING", "ERROR", "CRITICAL", "RESET"} |->
     CASE n = "DEBUG"    -> "ESC[36m"
       [] n = "INFO"     -> "ESC[32m"
       [] n = "WARNING"  -> "ESC[33m"
       [] n = "ERROR"    -> "ESC[31m"
       [] n = "CRITICAL" -> "ESC[35m"
       [] n = "RESET"    -> "ESC[0m"]

AnsiCodes == {COLORS[n] : n \in DOMAIN COLORS}

\* logging.getLevelName(levelno)
LevelName(levelno) ==
  CASE levelno = DEBUG   -> <<"DEBUG">>
    [] levelno = INFO    -> <<"INFO">>
    [] levelno = WARNING -> <<"WARNING">>
    [] levelno = ERROR   -> <<"ERROR">>
    [] OTHER             -> <<"Level", " ", "25">>

\* logging.Formatter.format(record): the line, with the level name the
\* record has now.
PlainFormat(rec, msg) == [levelname |-> rec.levelname, msg |-> msg]

\* Lines 27-31: ColoredFormatter.format(record) assigns the colored name to
\* record.levelname and formats the record; the record keeps the new name.
ColoredFormat(rec, msg) ==
  Only({[record |-> colored, line |-> PlainFormat(colored, msg)] :
          colored \in
            {IF Len(rec.levelname) = 1 /\ rec.levelname[1] \in DOMAIN COLORS
             THEN [rec EXCEPT !.levelname = <<COLORS[rec.levelname[1]]>> \o @
                                              \o <<COLORS["RESET"]>>]
             ELSE rec}})

\* Handler.handle for the handlers in their order: a handler whose level is
\* above the level of the record writes nothing.
RECURSIVE CallHandlers(_, _, _, _)
CallHandlers(handlers, out, levelno, msg) ==
  IF handlers = << >> THEN out
  ELSE IF levelno < Head(handlers).level
  THEN CallHandlers(Tail(handlers), out, levelno, msg)
  ELSE IF Head(handlers).formatter = "colored"
  THEN CallHandlers(Tail(handlers),
         [out EXCEPT !.record = ColoredFormat(out.record, msg).record,
                     !.console = Append(@, ColoredFormat(out.record, msg).line)],
         levelno, msg)
  ELSE IF Head(handlers).kind = "console"
  THEN CallHandlers(Tail(handlers),
         [out EXCEPT !.console = Append(@, PlainFormat(out.record, msg))],
         levelno, msg)
  ELSE CallHandlers(Tail(handlers),
         [out EXCEPT !.log_file = Append(@, PlainFormat(out.record, msg))],
         levelno, msg)

\* Lines 63-81
ConsoleHandler(level, colored) ==
  [kind |-> "console", level |-> level,
   formatter |-> IF colored THEN "colored" ELSE "plain"]

\* Lines 96-106
FileHandler(level) == [kind |-> "file", level |-> level, formatter |-> "file"]

Levels == {DEBUG, INFO, ERROR}

\* A bug setup_logger could have: line 60 left out, the handlers of the
\* earlier calls are kept.
SetupLogger_keeps_handlers ==
  /\ \E level \in Levels, log_to_file \in BOOLEAN, colored \in BOOLEAN :
       /\ logger' = [level |-> level,
                     handlers |-> logger.handlers
                                    \o <<ConsoleHandler(level, colored)>>
                                    \o (IF log_to_file
                                        THEN <<FileHandler(level)>>
                                        ELSE << >>)]
       /\ last_setup' = [called |-> TRUE, by |-> "setup_logger",
                         log_to_file |-> log_to_file, raised |-> FALSE]
  /\ Len(logger.handlers) < 4
  /\ UNCHANGED <<contexts, blocks, last_exit, console, log_file, record>>
  /\ UNCHANGED <<inputs, run, norm, first, tester>>

\* Lines 56-108: setup_logger(name, level, log_to_file, ..., colored) when
\* it returns.
SetupLogger ==
  /\ \E level \in Levels, log_to_file \in BOOLEAN, colored \in BOOLEAN :
       /\ logger' = [level |-> level,
                     handlers |-> <<ConsoleHandler(level, colored)>>
                                    \o (IF log_to_file
                                        THEN <<FileHandler(level)>>
                                        ELSE << >>)]
       /\ last_setup' = [called |-> TRUE, by |-> "setup_logger",
                         log_to_file |-> log_to_file, raised |-> FALSE]
  /\ UNCHANGED <<contexts, blocks, last_exit, console, log_file, record>>
  /\ UNCHANGED <<inputs, run, norm, first, tester>>

\* Lines 56-96 with log_to_file set, when the directory of the log file
\* cannot be made or the file cannot be opened: mkdir or FileHandler raises
\* OSError after the console handler was added.
SetupLoggerRaises ==
  /\ \E level \in Levels, colored \in BOOLEAN :
       logger' = [level |-> level,
                  handlers |-> <<ConsoleHandler(level, colored)>>]
  /\ last_setup' = [called |-> TRUE, by |-> "setup_logger",
                    log_to_file |-> TRUE, raised |-> TRUE]
  /\ UNCHANGED <<contexts, blocks, last_exit, console, log_file, record>>
  /\ UNCHANGED <<inputs, run, norm, first, tester>>

\* Lines 121-124: get_logger(name) calls setup_logger(name), with its
\* defaults, for a logger without handlers and returns any other as it is.
GetLogger ==
  /\ IF logger.handlers = << >>
     THEN /\ logger' = [level |-> INFO,
                        handlers |-> <<ConsoleHandler(INFO, TRUE)>>]
          /\ last_setup' = [called |-> TRUE, by |-> "get_logger",
                            log_to_file |-> FALSE, raised |-> FALSE]
     ELSE UNCHANGED <<logger, last_setup>>
  /\ UNCHANGED <<contexts, blocks, last_exit, console, log_file, record>>
  /\ UNCHANGED <<inputs, run, norm, first, tester>>

\* The deepest nesting of with-blocks.
MaxBlocks == 2

\* Lines 135-138: "with context:" is entered.
EnterContext ==
  /\ Len(blocks) < MaxBlocks
  /\ \E c \in ContextIds :
       /\ contexts' = [contexts EXCEPT ![c].old_level = logger.level]
       /\ logger' = [logger EXCEPT !.level = contexts[c].new_level]
       /\ blocks' = Append(blocks, [context |-> c, entry_level |-> logger.level])
  /\ UNCHANGED <<last_setup, last_exit, console, log_file, record>>
  /\ UNCHANGED <<inputs, run, norm, first, tester>>

\* Lines 140-143: the innermost with-block is left, by its end or by an
\* exception; __exit__ returns False, so the exception is raised again.
ExitContext ==
  /\ blocks # << >>
  /\ \E by_exception \in BOOLEAN, c \in {blocks[Len(blocks)].context} :
       /\ logger' = IF contexts[c].old_level # None
                    THEN [logger EXCEPT !.level = contexts[c].old_level]
                    ELSE logger
       /\ last_exit' = [left |-> TRUE, context |-> c,
                        by_exception |-> by_exception,
                        reraised |-> by_exception,
                        entry_level |-> blocks[Len(blocks)].entry_level]
  /\ blocks' = SubSeq(blocks, 1, Len(blocks) - 1)
  /\ UNCHANGED <<contexts, last_setup, console, log_file, record>>
  /\ UNCHANGED <<inputs, run, norm, first, tester>>

\* The most records logged.
MaxLogged == 2

\* Logger.getEffectiveLevel(): a logger whose level is NOTSET takes the
\* level of the root logger, WARNING.
EffectiveLevel == IF logger.level = NOTSET THEN WARNING ELSE logger.level

\* logger.log(levelno, msg): the record is made and handed to the handlers
\* of the logger in their order.  The root logger has no handler; what the
\* logging package writes to sys.stderr for a logger without handlers is
\* not kept.
Log ==
  /\ record.no < MaxLogged
  /\ \E levelno \in {DEBUG, INFO, 25, ERROR}, msg \in {"m"} :
       /\ levelno >= EffectiveLevel
       /\ \E out \in {CallHandlers(logger.handlers,
                        [record |-> [no |-> record.no + 1,
                                     levelname |-> LevelName(levelno),
                                     created_as |-> LevelName(levelno)],
                         console |-> console, log_file |-> log_file],
                        levelno, msg)} :
            /\ record' = out.record
            /\ console' = out.console
            /\ log_file' = out.log_file
  /\ UNCHANGED <<logger, last_setup, contexts, blocks, last_exit>>
  /\ UNCHANGED <<inputs, run, norm, first, tester>>

InitLogging == OthersIdle /\ TesterIdle /\ LogsIdle

\* The logger is configured and records are logged.
NextHandlers == SetupLogger \/ SetupLoggerRaises \/ GetLogger \/ Log

SpecHandlers == InitLogging /\ [][NextHandlers]_vars

\* The logger is configured and with-blocks are entered and left.
NextContext == SetupLogger \/ EnterContext \/ ExitContext

SpecContext == InitLogging /\ [][NextContext]_vars

----------------------------------------------------------------------------
(* C27, C28, C29: util/logging.py.                                         *)

\* How many handlers of a kind the logger has.
HandlerCount(kind) ==
  Cardinality({i \in 1..Len(logger.handlers) : logger.handlers[i].kind = kind})

\* get_logger configures only a logger that has no handlers: a step that
\* is a call of setup_logger made by get_logger starts without handlers and
\* ends with the handlers of the defaults.
GetLoggerOnlyConfiguresNew ==
  [][(last_setup'.by = "get_logger" /\ last_setup' # last_setup)
       => /\ logger.handlers = << >>
          /\ logger' = [level |-> INFO,
                        handlers |-> <<ConsoleHandler(INFO, TRUE)>>]]_vars

\* C27 as claimed: after every call of setup_logger the logger has one
\* console handler, and one file handler if the last call had log_to_file
\* set and none if it had not; get_logger leaves a logger with handlers as
\* it is.
C27_HandlersOfLastCall ==
  /\ [](last_setup.called
          => /\ HandlerCount("console") = 1
             /\ HandlerCount("file") = (IF last_setup.log_to_file THEN 1 ELSE 0)
             /\ Len(logger.handlers) = HandlerCount("console")
                                         + HandlerCount("file"))
  /\ GetLoggerOnlyConfiguresNew

\* C27 as amended: the same, but the file handler is there if the last
\* call had log_to_file set and returned; a call that could not open its
\* log file raised and left the console handler alone.
C27_HandlersOfLastReturnedCall ==
  /\ [](last_setup.called
          => /\ HandlerCount("console") = 1
             /\ HandlerCount("file")
                  = (IF last_setup.log_to_file /\ ~last_setup.raised
                     THEN 1 ELSE 0)
             /\ Len(logger.handlers) = HandlerCount("console")
                                         + HandlerCount("file")
             /\ logger.handlers[1].kind = "console")
  /\ [](~last_setup.called => logger.handlers = << >>)
  /\ GetLoggerOnlyConfiguresNew

\* setup_logger was called with log_to_file set after records were logged
\* to the console: the logger has its two handlers and no more.
C27_Witness ==
  /\ last_setup.called
  /\ last_setup.by = "setup_logger"
  /\ last_setup.log_to_file
  /\ ~last_setup.raised
  /\ Len(logger.handlers) = 2
  /\ Len(console) = 2
  /\ log_file = << >>

\* C28: a step that leaves a with-block leaves the innermost one, sets the
\* level of the logger to the level it had when that block was entered,
\* and raises the exception again when the block was left by one.
C28_LevelRestored ==
  [][Len(blocks') < Len(blocks)
       => /\ blocks' = SubSeq(blocks, 1, Len(blocks) - 1)
          /\ logger'.level = blocks[Len(blocks)].entry_level
          /\ last_exit'.reraised = last_exit'.by_exception]_vars

\* The pieces of a line that are ANSI escape codes.
AnsiIn(line) ==
  {i \in 1..Len(line.levelname) : line.levelname[i] \in AnsiCodes}

\* C29: the record has the level name it was created with after its
\* handlers ran, no line of the log file holds an ANSI escape code, and
\* the colored formatter gives the same line for the record it has
\* formatted once as it gave the first time.
C29_ColorsOnConsoleOnly ==
  /\ record.levelname = record.created_as
  /\ \A i \in 1..Len(log_file) : AnsiIn(log_file[i]) = {}
  /\ ColoredFormat(ColoredFormat(record, "m").record, "m").line
       = ColoredFormat(record, "m").line

====
